---------------------------- MODULE Spec2Model ----------------------------
(***************************************************************************)
(* A model of the NetCDF v3 reader (BioDeep/netcdf, TypeScript).           *)
(*                                                                         *)
(* The byte image handed to the constructor is the variable data.  The    *)
(* constructor (NetCDFReader.ts) parses it with the operators below, which *)
(* follow IOBuffer, utils, Type and the three header list parsers function *)
(* by function.  A cursor is the record [offset, reads]: offset is         *)
(* IOBuffer.offset, reads is the list of <<offset, width>> of the DataView *)
(* reads that succeeded so far in the current call (an observation of the  *)
(* call, not a field of the program).                                      *)
(*                                                                         *)
(* Every operation returns [buf, val, err]; err is NoErr or the exception  *)
(* the code throws, and a thrown exception ends every enclosing call.      *)
(*                                                                         *)
(* Representation:                                                         *)
(*   - strings (names, CHAR data) are sequences of UTF-16 code units;      *)
(*   - a FLOAT is its 32 bit pattern read as a signed integer, a DOUBLE    *)
(*     the pair <<high word, low word>> of its 64 bit pattern;             *)
(*   - JavaScript null is NullId / NullName / NullStep / NullIndex;        *)
(*   - a quotient that is not a whole number is NotWhole, a negative       *)
(*     number: every consumer of it in the code is an array constructor,   *)
(*     which rejects a fraction as it rejects a negative length.           *)
(*   - u32 header fields stay below 2^31 (the model's integers).           *)
(***************************************************************************)
EXTENDS Integers, Sequences, FiniteSets, TLC

VARIABLES
    file,     \* the description of the file the image was written from (see Encode)
    data,     \* the byte image given to the constructor
    state,    \* "new": not constructed, "ready": constructed, "failed": the constructor threw
    header,   \* this.header (NoHeader until construction succeeds)
    offset,   \* this.buffer.offset
    last,     \* the last call: what was called, what it returned or threw, what it read
    kept,     \* an earlier call of getDataVariable, remembered to compare later calls with
    calls     \* getDataVariable calls in progress, stepped one cursor operation at a time

vars == <<file, data, state, header, offset, last, kept, calls>>

----------------------------------------------------------------------------
(* Grammar constants and type codes *)

ZERO == 0
NC_DIMENSION == 10
NC_VARIABLE == 11
NC_ATTRIBUTE == 12
NC_UNLIMITED == 0

BYTE == 1
CHAR == 2
SHORT == 3
INT == 4
FLOAT == 5
DOUBLE == 6

NullId == -1
NullStep == -1
NullIndex == 0
UndefinedIndex == -2
NoData == <<-1>>
NullName == <<-1>>
NotWhole == -(2^30)

----------------------------------------------------------------------------
(* Exceptions *)

NoErr == [cls |-> "none", prefix |-> "", reason |-> "", arg |-> <<>>]

\* DataView.getX past the end of the view
RangeErr == [cls |-> "RangeError", prefix |-> "",
             reason |-> "Offset is outside the bounds of the DataView", arg |-> <<>>]

\* new Array(n) / new Uint8Array(n) with n negative or not a whole number
LengthErr == [cls |-> "RangeError", prefix |-> "",
              reason |-> "Invalid array length", arg |-> <<>>]

\* variable.offset with variable === null
NullDerefErr == [cls |-> "TypeError", prefix |-> "",
                 reason |-> "Cannot read properties of null (reading 'offset')", arg |-> <<>>]

\* throw "empty data is not allowed!" (a string, not an Error)
EmptyErr == [cls |-> "string", prefix |-> "",
             reason |-> "empty data is not allowed!", arg |-> <<>>]

\* utils.notNetcdf: throws TypeError(`Not a valid NetCDF v3.x file: ${reason}`) when
\* statement holds; the reason is the literal part followed by the interpolated arg.
notNetcdf(statement, reason, arg) ==
    IF statement
    THEN [cls |-> "TypeError", prefix |-> "Not a valid NetCDF v3.x file: ",
          reason |-> reason, arg |-> arg]
    ELSE NoErr

Res(b, v, e) == [buf |-> b, val |-> v, err |-> e]

Ok(r) == r.err = NoErr

\* F applied to the value of v, which is computed once (a local constant of the code)
Let(v, F(_)) == CHOOSE y \in {F(r) : r \in {v}} : TRUE

----------------------------------------------------------------------------
(* IOBuffer *)

NewBuffer == [offset |-> 0, reads |-> <<>>]

seek(b, o) == [b EXCEPT !.offset = o]

skip(b, n) == [b EXCEPT !.offset = @ + n]

\* whether DataView accepts a read of w bytes at offset o
InView(o, w) == o >= 0 /\ o + w <= Len(data)

ByteAt(o) == data[o + 1]

\* a variant that leaves the cursor where it is
ReadInPlace(b, w) == [offset |-> b.offset, reads |-> Append(b.reads, <<b.offset, w>>)]

Read(b, w) == [offset |-> b.offset + w, reads |-> Append(b.reads, <<b.offset, w>>)]

\* readUint8: this._data.getUint8(this.offset++), the increment happens before the throw
readUint8(b) ==
    IF InView(b.offset, 1)
    THEN Res(Read(b, 1), ByteAt(b.offset), NoErr)
    ELSE Res(skip(b, 1), 0, RangeErr)

readByte(b) == readUint8(b)

Signed8(x) == IF x >= 128 THEN x - 256 ELSE x

readInt8(b) ==
    IF InView(b.offset, 1)
    THEN Res(Read(b, 1), Signed8(ByteAt(b.offset)), NoErr)
    ELSE Res(skip(b, 1), 0, RangeErr)

\* String.fromCharCode(n): the code unit is n modulo 2^16
fromCharCode(n) == n % 65536

readChar(b) ==
    Let(readInt8(b), LAMBDA r : Res(r.buf, fromCharCode(r.val), r.err))

RECURSIVE readCharsLoop(_, _, _, _)
readCharsLoop(b, n, i, result) ==
    IF i < n
    THEN Let(readChar(b), LAMBDA r :
           IF Ok(r) THEN readCharsLoop(r.buf, n, i + 1, Append(result, r.val))
           ELSE Res(r.buf, result, r.err))
    ELSE Res(b, result, NoErr)

readChars(b, n) == readCharsLoop(b, n, 0, <<>>)

RECURSIVE readBytesLoop(_, _, _, _)
readBytesLoop(b, n, i, bytes) ==
    IF i < n
    THEN Let(readByte(b), LAMBDA r :
           IF Ok(r) THEN readBytesLoop(r.buf, n, i + 1, Append(bytes, r.val))
           ELSE Res(r.buf, bytes, r.err))
    ELSE Res(b, bytes, NoErr)

readBytes(b, n) ==
    IF n < 0 THEN Res(b, <<>>, LengthErr) ELSE readBytesLoop(b, n, 0, <<>>)

\* big-endian words (setBigEndian is called before the first read)
Word16(o) == ByteAt(o) * 256 + ByteAt(o + 1)

Signed16(x) == IF x >= 32768 THEN x - 65536 ELSE x

SignedWord32(o) ==
    Signed8(ByteAt(o)) * 16777216 + ByteAt(o + 1) * 65536 + ByteAt(o + 2) * 256 + ByteAt(o + 3)

UnsignedWord32(o) ==
    ByteAt(o) * 16777216 + ByteAt(o + 1) * 65536 + ByteAt(o + 2) * 256 + ByteAt(o + 3)

readInt16(b) ==
    IF InView(b.offset, 2)
    THEN Res(Read(b, 2), Signed16(Word16(b.offset)), NoErr)
    ELSE Res(b, 0, RangeErr)

readInt32(b) ==
    IF InView(b.offset, 4)
    THEN Res(Read(b, 4), SignedWord32(b.offset), NoErr)
    ELSE Res(b, 0, RangeErr)

\* a variant that reads 0 where the image has ended
readUint32Zero(b) ==
    IF InView(b.offset, 4)
    THEN Res(Read(b, 4), UnsignedWord32(b.offset), NoErr)
    ELSE Res(skip(b, 4), 0, NoErr)

readUint32(b) ==
    IF InView(b.offset, 4)
    THEN Res(Read(b, 4), UnsignedWord32(b.offset), NoErr)
    ELSE Res(b, 0, RangeErr)

readFloat32(b) ==
    IF InView(b.offset, 4)
    THEN Res(Read(b, 4), SignedWord32(b.offset), NoErr)
    ELSE Res(b, 0, RangeErr)

readFloat64(b) ==
    IF InView(b.offset, 8)
    THEN Res(Read(b, 8), <<SignedWord32(b.offset), SignedWord32(b.offset + 4)>>, NoErr)
    ELSE Res(b, 0, RangeErr)

----------------------------------------------------------------------------
(* Type: codes, names, widths, typed reads *)

num2str(type) ==
    CASE type = BYTE -> "byte"
      [] type = CHAR -> "char"
      [] type = SHORT -> "short"
      [] type = INT -> "int"
      [] type = FLOAT -> "float"
      [] type = DOUBLE -> "double"
      [] OTHER -> "undefined"

num2bytes(type) ==
    CASE type = BYTE -> 1
      [] type = CHAR -> 1
      [] type = SHORT -> 2
      [] type = INT -> 4
      [] type = FLOAT -> 4
      [] type = DOUBLE -> 8
      [] OTHER -> -1

str2num(type) ==
    CASE type = "byte" -> BYTE
      [] type = "char" -> CHAR
      [] type = "short" -> SHORT
      [] type = "int" -> INT
      [] type = "float" -> FLOAT
      [] type = "double" -> DOUBLE
      [] OTHER -> -1

\* JavaScript a / b for a >= 0 and b a width of num2bytes
Quotient(a, b) ==
    IF b < 0 THEN -a
    ELSE IF a % b = 0 THEN a \div b ELSE NotWhole

\* a value read by readType: kind says what JavaScript value it is
\*   "bytes": Uint8Array, "text": string, "scalar": one number, "array": Array of numbers
Value(kind, items) == [kind |-> kind, items |-> items]

\* the reader bound by readType for each numeric type
bufferReader(type, b) ==
    CASE type = SHORT -> readInt16(b)
      [] type = INT -> readInt32(b)
      [] type = FLOAT -> readFloat32(b)
      [] type = DOUBLE -> readFloat64(b)

RECURSIVE readNumberLoop(_, _, _, _, _)
readNumberLoop(b, type, size, i, numbers) ==
    IF i < size
    THEN Let(bufferReader(type, b), LAMBDA r :
           IF Ok(r) THEN readNumberLoop(r.buf, type, size, i + 1, Append(numbers, r.val))
           ELSE Res(r.buf, Value("array", numbers), r.err))
    ELSE Res(b, Value("array", numbers), NoErr)

\* a variant that takes the array branch for every size
readNumberArray(b, size, type) ==
    IF size < 0 THEN Res(b, Value("array", <<>>), LengthErr)
    ELSE readNumberLoop(b, type, size, 0, <<>>)

readNumber(b, size, type) ==
    IF size # 1
    THEN IF size < 0 THEN Res(b, Value("array", <<>>), LengthErr)
         ELSE readNumberLoop(b, type, size, 0, <<>>)
    ELSE Let(bufferReader(type, b), LAMBDA r :
           Res(r.buf, Value("scalar", IF Ok(r) THEN <<r.val>> ELSE <<>>), r.err))

\* a variant that removes every trailing NUL
RECURSIVE trimNulls(_)
trimNulls(value) ==
    IF Len(value) > 0 /\ value[Len(value)] = 0
    THEN trimNulls(SubSeq(value, 1, Len(value) - 1))
    ELSE value

trimNull(value) ==
    IF Len(value) > 0 /\ value[Len(value)] = 0
    THEN SubSeq(value, 1, Len(value) - 1)
    ELSE value

readType(b, type, size) ==
    CASE type = BYTE ->
           Let(readBytes(b, size), LAMBDA r : Res(r.buf, Value("bytes", r.val), r.err))
      [] type = CHAR ->
           Let(readChars(b, size), LAMBDA r :
             Res(r.buf, Value("text", trimNull(r.val)), r.err))
      [] type \in {SHORT, INT, FLOAT, DOUBLE} -> readNumber(b, size, type)
      [] OTHER -> Res(b, Value("undefined", <<>>), notNetcdf(TRUE, "non valid type ", <<type>>))

----------------------------------------------------------------------------
(* utils *)

\* a variant that skips to the boundary after the next one when the cursor is on one
paddingUnconditional(b) == skip(b, 4 - (b.offset % 4))

padding(b) ==
    IF (b.offset % 4) # 0 THEN skip(b, 4 - (b.offset % 4)) ELSE b

readName(b) ==
    Let(readUint32(b), LAMBDA nameLength :
    IF ~Ok(nameLength) THEN Res(nameLength.buf, <<>>, nameLength.err) ELSE
    Let(readChars(nameLength.buf, nameLength.val), LAMBDA name :
    IF ~Ok(name) THEN name ELSE
    Res(padding(name.buf), name.val, NoErr)))

\* utils.find: the index of the first entry named key, NullIndex (null) when there is none
RECURSIVE findFrom(_, _, _)
findFrom(list, key, i) ==
    IF i > Len(list) THEN NullIndex
    ELSE IF list[i].name = key THEN i
    ELSE findFrom(list, key, i + 1)

\* a variant that returns the last entry named key
findLast(list, key) ==
    IF \E i \in DOMAIN list : list[i].name = key
    THEN CHOOSE i \in DOMAIN list :
           list[i].name = key /\ \A j \in DOMAIN list : list[j].name = key => j <= i
    ELSE NullIndex

find(list, key) == findFrom(list, key, 1)

\* createInputBuffer: a missing input throws; an array (also the empty one) is wrapped
\* a variant that reports missing data through notNetcdf
createInputBufferNotNetcdf(input) ==
    notNetcdf(input = NoData, "empty data is not allowed!", <<>>)

createInputBuffer(input) ==
    IF input = NoData THEN EmptyErr ELSE NoErr

----------------------------------------------------------------------------
(* header: list of dimensions (readDimensions.ts) *)

NoDimensions == [dimensions |-> <<>>, recordId |-> NullId, recordName |-> NullName]

\* one pass of the loop body: the dimension is stored, and a size of NC_UNLIMITED
\* makes it the record dimension
addDimension(acc, dim, name, size) ==
    [dimensions |-> Append(acc.dimensions, [name |-> name, size |-> size]),
     recordId |-> IF size = NC_UNLIMITED THEN dim ELSE acc.recordId,
     recordName |-> IF size = NC_UNLIMITED THEN name ELSE acc.recordName]

RECURSIVE dimensionsLoop(_, _, _, _)
dimensionsLoop(b, dimensionSize, dim, acc) ==
    IF dim < dimensionSize
    THEN Let(readName(b), LAMBDA name :
         IF ~Ok(name) THEN Res(name.buf, acc, name.err) ELSE
         Let(readUint32(name.buf), LAMBDA size :
         IF ~Ok(size) THEN Res(size.buf, acc, size.err) ELSE
         dimensionsLoop(size.buf, dimensionSize, dim + 1,
                        addDimension(acc, dim, name.val, size.val))))
    ELSE Res(b, acc, NoErr)

dimensionsReadInternal(b) ==
    Let(readUint32(b), LAMBDA dimensionSize :
    IF ~Ok(dimensionSize) THEN Res(dimensionSize.buf, NoDimensions, dimensionSize.err) ELSE
    dimensionsLoop(dimensionSize.buf, dimensionSize.val, 0, NoDimensions))

\* a variant that skips the word after a zero tag without looking at it
emptyListUnchecked(b, empty, reason) ==
    Let(readUint32(b), LAMBDA z : Res(z.buf, empty, z.err))

\* a variant that does not consume the word after a zero tag
emptyListOneWord(b, empty, reason) == Res(b, empty, NoErr)

\* the framing shared by the three lists: a zero tag must be followed by a zero word
emptyList(b, empty, reason) ==
    Let(readUint32(b), LAMBDA z :
    IF ~Ok(z) THEN Res(z.buf, empty, z.err) ELSE
    Res(z.buf, empty, notNetcdf(z.val # ZERO, reason, <<>>)))

dimensionsList(b) ==
    Let(readUint32(b), LAMBDA dimList :
    IF ~Ok(dimList) THEN Res(dimList.buf, NoDimensions, dimList.err) ELSE
    IF dimList.val = ZERO
    THEN emptyList(dimList.buf, NoDimensions, "wrong empty tag for list of dimensions")
    ELSE IF notNetcdf(dimList.val # NC_DIMENSION, "wrong tag for list of dimensions", <<>>)
            # NoErr
    THEN Res(dimList.buf, NoDimensions,
             notNetcdf(TRUE, "wrong tag for list of dimensions", <<>>))
    ELSE dimensionsReadInternal(dimList.buf))

----------------------------------------------------------------------------
(* header: list of attributes *)

\* a variant with the conjunction that the check of a variable's type uses
attributeTypeChecked(type) == (type < 1) /\ (type > 6)

\* the validation of an attribute's type code
attributeTypeInvalid(type) == (type < 1) \/ (type > 6)

RECURSIVE attributesLoop(_, _, _, _)
attributesLoop(b, attributeSize, gAtt, attributes) ==
    IF gAtt < attributeSize
    THEN Let(readName(b), LAMBDA name :
         IF ~Ok(name) THEN Res(name.buf, attributes, name.err) ELSE
         Let(readUint32(name.buf), LAMBDA type :
         IF ~Ok(type) THEN Res(type.buf, attributes, type.err) ELSE
         IF attributeTypeInvalid(type.val)
         THEN Res(type.buf, attributes, notNetcdf(TRUE, "non valid type ", <<type.val>>)) ELSE
         Let(readUint32(type.buf), LAMBDA size :
         IF ~Ok(size) THEN Res(size.buf, attributes, size.err) ELSE
         Let(readType(size.buf, type.val, size.val), LAMBDA value :
         IF ~Ok(value) THEN Res(value.buf, attributes, value.err) ELSE
         attributesLoop(padding(value.buf), attributeSize, gAtt + 1,
                        Append(attributes, [name |-> name.val,
                                            type |-> num2str(type.val),
                                            value |-> value.val]))))))
    ELSE Res(b, attributes, NoErr)

attributesReadInternal(b) ==
    Let(readUint32(b), LAMBDA attributeSize :
    IF ~Ok(attributeSize) THEN Res(attributeSize.buf, <<>>, attributeSize.err) ELSE
    attributesLoop(attributeSize.buf, attributeSize.val, 0, <<>>))

attributesList(b) ==
    Let(readUint32(b), LAMBDA gAttList :
    IF ~Ok(gAttList) THEN Res(gAttList.buf, <<>>, gAttList.err) ELSE
    IF gAttList.val = ZERO
    THEN emptyList(gAttList.buf, <<>>, "wrong empty tag for list of attributes")
    ELSE IF notNetcdf(gAttList.val # NC_ATTRIBUTE, "wrong tag for list of attributes", <<>>)
            # NoErr
    THEN Res(gAttList.buf, <<>>, notNetcdf(TRUE, "wrong tag for list of attributes", <<>>))
    ELSE attributesReadInternal(gAttList.buf))

----------------------------------------------------------------------------
(* header: list of variables *)

NoVariables == [variables |-> <<>>, recordStep |-> NullStep]

RECURSIVE dimensionsIdsLoop(_, _, _, _)
dimensionsIdsLoop(b, dimensionality, dim, dimensionsIds) ==
    IF dim < dimensionality
    THEN Let(readUint32(b), LAMBDA id :
         IF ~Ok(id) THEN Res(id.buf, dimensionsIds, id.err) ELSE
         dimensionsIdsLoop(id.buf, dimensionality, dim + 1, Append(dimensionsIds, id.val)))
    ELSE Res(b, dimensionsIds, NoErr)

\* the validation of a variable's type code
variableTypeInvalid(type) == (type < 1) /\ (type > 6)

\* a variant that takes a variable for a record variable when any of its dimensions
\* is the record dimension
isRecordAnywhere(dimensionsIds, recordId) ==
    \E k \in DOMAIN dimensionsIds : dimensionsIds[k] = recordId

\* (typeof recordId !== 'undefined') && (dimensionsIds[0] === recordId): recordId is a
\* number or null, never undefined; dimensionsIds[0] is undefined for a rank 0 variable
isRecord(dimensionsIds, recordId) ==
    Len(dimensionsIds) > 0 /\ dimensionsIds[1] = recordId

\* a variant that reads one word whatever the version
readOffsetOneWord(b, version) == readUint32(b)

\* the offset field: one u32, and for version 2 a high word that must be 0, then the low word
readOffset(b, version) ==
    Let(readUint32(b), LAMBDA first :
    IF ~Ok(first) THEN first ELSE
    IF version = 2
    THEN IF first.val > 0
         THEN Res(first.buf, first.val,
                  notNetcdf(TRUE, "offsets larger than 4GB not supported", <<>>))
         ELSE readUint32(first.buf)
    ELSE first)

\* one pass of the loop body, from the variable's name to its offset
readVariable(b, recordId, version) ==
    Let(readName(b), LAMBDA name :
    IF ~Ok(name) THEN name ELSE
    Let(readUint32(name.buf), LAMBDA dimensionality :
    IF ~Ok(dimensionality) THEN dimensionality ELSE
    Let(dimensionsIdsLoop(dimensionality.buf, dimensionality.val, 0, <<>>),
        LAMBDA dimensionsIds :
    IF ~Ok(dimensionsIds) THEN dimensionsIds ELSE
    Let(attributesList(dimensionsIds.buf), LAMBDA attributes :
    IF ~Ok(attributes) THEN attributes ELSE
    Let(readUint32(attributes.buf), LAMBDA type :
    IF ~Ok(type) THEN type ELSE
    IF variableTypeInvalid(type.val)
    THEN Res(type.buf, 0, notNetcdf(TRUE, "non valid type ", <<type.val>>)) ELSE
    Let(readUint32(type.buf), LAMBDA varSize :
    IF ~Ok(varSize) THEN varSize ELSE
    Let(readOffset(varSize.buf, version), LAMBDA off :
    IF ~Ok(off) THEN off ELSE
    Res(off.buf,
        [name |-> name.val,
         dimensions |-> dimensionsIds.val,
         attributes |-> attributes.val,
         type |-> num2str(type.val),
         size |-> varSize.val,
         offset |-> off.val,
         record |-> isRecord(dimensionsIds.val, recordId)],
        NoErr))))))))

\* a variant in which every variable adds its size to recordStep
addVariableAlways(acc, var) ==
    [variables |-> Append(acc.variables, var),
     recordStep |-> acc.recordStep + var.size]

\* the variable is stored, and a record variable adds its size to recordStep
addVariable(acc, var) ==
    [variables |-> Append(acc.variables, var),
     recordStep |-> IF var.record THEN acc.recordStep + var.size ELSE acc.recordStep]

RECURSIVE variablesLoop(_, _, _, _, _, _)
variablesLoop(b, recordId, version, variableSize, v, acc) ==
    IF v < variableSize
    THEN Let(readVariable(b, recordId, version), LAMBDA var :
         IF ~Ok(var) THEN Res(var.buf, acc, var.err) ELSE
         variablesLoop(var.buf, recordId, version, variableSize, v + 1,
                       addVariable(acc, var.val)))
    ELSE Res(b, acc, NoErr)

variablesReadInternal(b, recordId, version) ==
    Let(readUint32(b), LAMBDA variableSize :
    IF ~Ok(variableSize) THEN Res(variableSize.buf, NoVariables, variableSize.err) ELSE
    variablesLoop(variableSize.buf, recordId, version, variableSize.val, 0,
                  [variables |-> <<>>, recordStep |-> 0]))

variablesList(b, recordId, version) ==
    Let(readUint32(b), LAMBDA varList :
    IF ~Ok(varList) THEN Res(varList.buf, NoVariables, varList.err) ELSE
    IF varList.val = ZERO
    THEN emptyList(varList.buf, NoVariables, "wrong empty tag for list of variables")
    ELSE IF notNetcdf(varList.val # NC_VARIABLE, "wrong tag for list of variables", <<>>)
            # NoErr
    THEN Res(varList.buf, NoVariables, notNetcdf(TRUE, "wrong tag for list of variables", <<>>))
    ELSE variablesReadInternal(varList.buf, recordId, version))

----------------------------------------------------------------------------
(* header.readHeader *)

NoHeader == [version |-> -1,
             recordDimension |-> [length |-> 0, id |-> NullId, name |-> NullName,
                                  recordStep |-> NullStep],
             dimensions |-> <<>>, globalAttributes |-> <<>>, variables |-> <<>>]

readHeader(b, version) ==
    Let(readUint32(b), LAMBDA length :
    IF ~Ok(length) THEN Res(length.buf, NoHeader, length.err) ELSE
    Let(dimensionsList(length.buf), LAMBDA dimList :
    IF ~Ok(dimList) THEN Res(dimList.buf, NoHeader, dimList.err) ELSE
    Let(attributesList(dimList.buf), LAMBDA globalAttributes :
    IF ~Ok(globalAttributes)
    THEN Res(globalAttributes.buf, NoHeader, globalAttributes.err) ELSE
    Let(variablesList(globalAttributes.buf, dimList.val.recordId, version),
        LAMBDA variables :
    IF ~Ok(variables) THEN Res(variables.buf, NoHeader, variables.err) ELSE
    Res(variables.buf,
        [version |-> version,
         recordDimension |-> [length |-> length.val,
                              id |-> dimList.val.recordId,
                              name |-> dimList.val.recordName,
                              recordStep |-> variables.val.recordStep],
         dimensions |-> dimList.val.dimensions,
         globalAttributes |-> globalAttributes.val,
         variables |-> variables.val.variables],
        NoErr)))))

----------------------------------------------------------------------------
(* Type.nonRecord and Type.record *)

RECURSIVE nonRecordLoop(_, _, _, _, _)
nonRecordLoop(b, type, size, i, acc) ==
    IF i < size
    THEN Let(readType(b, type, 1), LAMBDA r :
         IF ~Ok(r) THEN Res(r.buf, acc, r.err) ELSE
         nonRecordLoop(r.buf, type, size, i + 1, Append(acc, r.val)))
    ELSE Res(b, acc, NoErr)

\* a variant that takes the size in bytes for the number of elements
nonRecordPerByte(b, variable) ==
    nonRecordLoop(b, str2num(variable.type), variable.size, 0, <<>>)

\* var size = variable.size / num2bytes(type); new Array(size) rejects a size that
\* is negative or not whole
nonRecord(b, variable) ==
    Let(Quotient(variable.size, num2bytes(str2num(variable.type))), LAMBDA size :
    IF size < 0 THEN Res(b, <<>>, LengthErr)
    ELSE nonRecordLoop(b, str2num(variable.type), size, 0, <<>>))

\* width of one record: variable.size ? variable.size / num2bytes(type) : 1
recordWidth(variable, type) ==
    IF variable.size # 0 THEN Quotient(variable.size, num2bytes(type)) ELSE 1

RECURSIVE recordLoop(_, _, _, _, _, _, _)
recordLoop(b, type, width, size, step, i, acc) ==
    IF i < size
    THEN Let(readType(b, type, width), LAMBDA r :
         IF ~Ok(r) THEN Res(r.buf, acc, r.err) ELSE
         recordLoop(seek(r.buf, b.offset + step), type, width, size, step,
                    i + 1, Append(acc, r.val)))
    ELSE Res(b, acc, NoErr)

\* a variant that reads a first record before it tests the count
recordAtLeastOnce(b, variable, recordDimension) ==
    recordLoop(b, str2num(variable.type),
               recordWidth(variable, str2num(variable.type)),
               IF recordDimension.length = 0 THEN 1 ELSE recordDimension.length,
               recordDimension.recordStep, 0, <<>>)

\* a variant that steps from record to record by the variable's own size
recordPacked(b, variable, recordDimension) ==
    recordLoop(b, str2num(variable.type),
               recordWidth(variable, str2num(variable.type)),
               recordDimension.length, variable.size, 0, <<>>)

\* a variant whose seek stops at the end of the image
recordBounded(b, variable, recordDimension) ==
    Let(recordLoop(b, str2num(variable.type),
                   recordWidth(variable, str2num(variable.type)),
                   recordDimension.length, recordDimension.recordStep, 0, <<>>),
        LAMBDA r : Res(seek(r.buf, IF r.buf.offset > Len(data) THEN Len(data)
                                   ELSE r.buf.offset),
                       r.val, r.err))

record(b, variable, recordDimension) ==
    recordLoop(b, str2num(variable.type),
               recordWidth(variable, str2num(variable.type)),
               recordDimension.length, recordDimension.recordStep, 0, <<>>)

----------------------------------------------------------------------------
(* NetCDFReader *)

Magic == <<67, 68, 70>>   \* 'CDF'

\* a variant that compares the first two characters only
badMagicPair(chars) == SubSeq(chars, 1, 2) # SubSeq(Magic, 1, 2)

\* a variant that accepts the classic format only
unknownVersionClassic(version) == version > 1

\* buffer.readChars(3) !== 'CDF'
badMagic(chars) == chars # Magic

\* version > 2
unknownVersion(version) == version > 2

\* new NetCDFReader(data): val is the header, buf the cursor the reader keeps
constructor ==
    IF createInputBuffer(data) # NoErr
    THEN Res(NewBuffer, NoHeader, createInputBuffer(data)) ELSE
    Let(readChars(seek(NewBuffer, 0), 3), LAMBDA magic :
    IF ~Ok(magic) THEN Res(magic.buf, NoHeader, magic.err) ELSE
    IF badMagic(magic.val)
    THEN Res(magic.buf, NoHeader, notNetcdf(TRUE, "should start with CDF", <<>>)) ELSE
    Let(readByte(magic.buf), LAMBDA version :
    IF ~Ok(version) THEN Res(version.buf, NoHeader, version.err) ELSE
    IF unknownVersion(version.val)
    THEN Res(version.buf, NoHeader, notNetcdf(TRUE, "unknown version", <<>>)) ELSE
    readHeader(version.buf, version.val)))

\* the argument of getDataVariable: a name, or a variable object
ByName(name) == [byName |-> TRUE, name |-> name, index |-> NullIndex]
ByObject(i) == [byName |-> FALSE, name |-> <<>>, index |-> i]

\* what `variable` holds before the notNetcdf check: the index of the variable found,
\* NullIndex when utils.find returned null, the index of the object passed otherwise
resolveVariable(h, arg) ==
    IF arg.byName THEN find(h.variables, arg.name) ELSE arg.index

\* a variant that reads a non-record variable from where the cursor stands
extractInPlace(b, h, variable, arg) ==
    IF variable = UndefinedIndex
    THEN Res(b, <<>>, notNetcdf(TRUE, "variable not found: ", arg.name))
    ELSE IF variable = NullIndex THEN Res(b, <<>>, NullDerefErr)
    ELSE IF h.variables[variable].record
    THEN record(seek(b, h.variables[variable].offset), h.variables[variable],
                h.recordDimension)
    ELSE nonRecord(b, h.variables[variable])

\* the part of getDataVariable after the lookup
extract(b, h, variable, arg) ==
    IF variable = UndefinedIndex
    THEN Res(b, <<>>, notNetcdf(TRUE, "variable not found: ", arg.name))
    ELSE IF variable = NullIndex THEN Res(b, <<>>, NullDerefErr)
    ELSE IF h.variables[variable].record
    THEN record(seek(b, h.variables[variable].offset), h.variables[variable],
                h.recordDimension)
    ELSE nonRecord(seek(b, h.variables[variable].offset), h.variables[variable])

getDataVariable(b, h, arg) == extract(b, h, resolveVariable(h, arg), arg)

dataVariableExists(h, variableName) ==
    find(h.variables, variableName) # UndefinedIndex

attributeExists(h, attributeName) ==
    find(h.globalAttributes, attributeName) # UndefinedIndex

\* Array.prototype.join and String(value): a string is a sequence of tokens, a
\* character <<"char", code>> or the decimal text of a number <<"number", n>>
Chars(codes) == [k \in 1..Len(codes) |-> <<"char", codes[k]>>]

RECURSIVE joinNumbers(_, _)
joinNumbers(items, separator) ==
    IF items = <<>> THEN <<>>
    ELSE IF Len(items) = 1 THEN <<<<"number", items[1]>>>>
    ELSE <<<<"number", items[1]>>>> \o Chars(separator) \o joinNumbers(Tail(items), separator)

\* String(value) for a value readType returns: a string is itself, a number its
\* decimal text, an array or a Uint8Array its elements joined by ','
toText(value) ==
    IF value.kind = "text" THEN Chars(value.items) ELSE joinNumbers(value.items, <<44>>)

RECURSIVE join(_)
join(values) ==
    IF values = <<>> THEN <<>> ELSE toText(Head(values)) \o join(Tail(values))

\* getDataVariableAsString: an array is always truthy, so null is never returned
getDataVariableAsString(b, h, variableName) ==
    Let(getDataVariable(b, h, ByName(variableName)), LAMBDA variable :
    IF ~Ok(variable) THEN variable ELSE Res(variable.buf, join(variable.val), NoErr))

\* debug.toString: the variables are read in header order through getDataVariable on
\* a copy of each variable object; val is the content of the dump line by line (the
\* padding of names and the cut of a value's JSON text at 50 characters are layout)
RECURSIVE toStringLoop(_, _, _, _)
toStringLoop(b, h, i, lines) ==
    IF i > Len(h.variables) THEN Res(b, lines, NoErr)
    ELSE Let(getDataVariable(b, h, ByObject(i)), LAMBDA value :
         IF ~Ok(value) THEN Res(value.buf, lines, value.err) ELSE
         toStringLoop(value.buf, h, i + 1,
                      Append(lines, [name |-> h.variables[i].name,
                                     value |-> value.val,
                                     length |-> Len(value.val)])))

toString(b, h) ==
    toStringLoop(b, h, 1,
                 [k \in 1..Len(h.dimensions) |->
                    [name |-> h.dimensions[k].name, size |-> h.dimensions[k].size]]
                   \o [k \in 1..Len(h.globalAttributes) |->
                         [name |-> h.globalAttributes[k].name,
                          value |-> h.globalAttributes[k].value]])

\* a variant that takes every version but 2 for the classic format
getVersionUnlessTwo(h) ==
    IF h.version # 2 THEN "classic format" ELSE "64-bit offset format"

\* get version()
getVersion(h) ==
    IF h.version = 1 THEN "classic format" ELSE "64-bit offset format"

\* the JavaScript value null, as a value returned
NullValue == Value("null", <<>>)

\* getAttribute: if (attribute) return attribute.value; return null
getAttribute(h, attributeName) ==
    Let(find(h.globalAttributes, attributeName), LAMBDA attribute :
    IF attribute # NullIndex /\ attribute # UndefinedIndex
    THEN h.globalAttributes[attribute].value
    ELSE NullValue)

----------------------------------------------------------------------------
(* The byte images the reader is run on.  A file is described by a record   *)
(* d and written out by Encode(d) following the NetCDF classic layout: the  *)
(* header, the fixed variables one after the other, then the records, each  *)
(* holding one slice per record variable.                                   *)

MaxRecords == 2   \* largest record count (numrecs) of a file
MaxDims == 2      \* most dimensions of a file
MaxVars == 2      \* most variables of a file

RECURSIVE Cat(_)
Cat(ss) == IF ss = <<>> THEN <<>> ELSE Head(ss) \o Cat(Tail(ss))

RECURSIVE SumOver(_, _)
SumOver(f, S) ==
    IF S = {} THEN 0
    ELSE Let(CHOOSE y \in S : TRUE, LAMBDA x : f[x] + SumOver(f, S \ {x}))

U32(n) == <<n \div 16777216, (n \div 65536) % 256, (n \div 256) % 256, n % 256>>

Zeros(n) == [i \in 1..n |-> 0]

PadTo4(s) == s \o Zeros((4 - (Len(s) % 4)) % 4)

EncName(name) == U32(Len(name)) \o PadTo4(name)

\* a list section: its tag word, its declared count, its elements
Absent == [tag |-> 0, count |-> 0, elems |-> <<>>]
Present(tag, elems) == [tag |-> tag, count |-> Len(elems), elems |-> elems]

EncDim(dm) == EncName(dm.name) \o U32(dm.size)

EncAtt(a) == EncName(a.name) \o U32(a.type) \o U32(a.nelems) \o PadTo4(a.payload)

EncAtts(l) ==
    U32(l.tag) \o U32(l.count) \o Cat([i \in 1..Len(l.elems) |-> EncAtt(l.elems[i])])

EncDims(l) ==
    U32(l.tag) \o U32(l.count) \o Cat([i \in 1..Len(l.elems) |-> EncDim(l.elems[i])])

EncOffset(version, hi, off) == IF version = 2 THEN U32(hi) \o U32(off) ELSE U32(off)

EncVar(v, version, off) ==
    EncName(v.name) \o U32(Len(v.dims))
      \o Cat([i \in 1..Len(v.dims) |-> U32(v.dims[i])])
      \o EncAtts(IF v.atts = <<>> THEN Absent ELSE Present(NC_ATTRIBUTE, v.atts))
      \o U32(v.type) \o U32(v.size) \o EncOffset(version, v.hi, off)

EncHeader(d, offs) ==
    d.magic \o <<d.version>> \o U32(d.recLength)
      \o EncDims(d.dimList)
      \o EncAtts(d.attList)
      \o U32(d.varList.tag) \o U32(d.varList.count)
      \o Cat([i \in 1..Len(d.varList.elems) |->
                EncVar(d.varList.elems[i], d.version, offs[i])])

\* the writer's layout: a variable lies in the record area when its first dimension
\* is an unlimited one
InRecords(d, v) ==
    /\ Len(v.dims) > 0
    /\ v.dims[1] + 1 \in DOMAIN d.dimList.elems
    /\ d.dimList.elems[v.dims[1] + 1].size = NC_UNLIMITED

VarSizes(d) == [i \in 1..Len(d.varList.elems) |-> d.varList.elems[i].size]

RecVars(d) == {i \in 1..Len(d.varList.elems) : InRecords(d, d.varList.elems[i])}

FixVars(d) == {i \in 1..Len(d.varList.elems) : ~InRecords(d, d.varList.elems[i])}

HeaderLen(d) == Len(EncHeader(d, [i \in 1..Len(d.varList.elems) |-> 0]))

VarOffsets(d, begin, size, rec, fix) ==
    [i \in 1..Len(d.varList.elems) |->
       IF i \in rec
       THEN begin + SumOver(size, fix) + SumOver(size, {j \in rec : j < i})
       ELSE begin + SumOver(size, {j \in fix : j < i})]

DataLen(d) == SumOver(VarSizes(d), FixVars(d)) + d.recLength * SumOver(VarSizes(d), RecVars(d))

Cut(whole, cut) == SubSeq(whole, 1, IF cut > Len(whole) THEN 0 ELSE Len(whole) - cut)

Encode(d) ==
    IF ~d.given THEN NoData ELSE
    Cut(EncHeader(d, VarOffsets(d, HeaderLen(d), VarSizes(d), RecVars(d), FixVars(d)))
          \o [k \in 1..DataLen(d) |-> d.fill[((k - 1) % Len(d.fill)) + 1]],
        d.cut)

DimName(i) == [k \in 1..i |-> 115 + i]   \* "t", "uu", "vvv"
VarName(i) == [k \in 1..i |-> 96 + i]    \* "a", "bb", "ccc"
AttName(i) == [k \in 1..i |-> 108 + i]   \* "m", "nn", "ooo"
Missing == <<113>>                       \* "q", the name of nothing in any file

Fills == {<<104, 105, 0, 0, 1, 0, 2, 255, 128, 3, 0>>, <<255, 128, 0, 65, 0, 0, 66, 0, 7, 200, 1>>}

Var(name, dims, type, size) ==
    [name |-> name, dims |-> dims, atts |-> <<>>, type |-> type, size |-> size, hi |-> 0]

Att(name, type, nelems, fill) ==
    [name |-> name, type |-> type, nelems |-> nelems,
     payload |-> IF num2bytes(type) < 0 THEN <<>>
                 ELSE [k \in 1..(nelems * num2bytes(type)) |->
                         fill[((k - 1) % Len(fill)) + 1]]]

\* the smallest file: the three lists absent
Minimal ==
    [magic |-> Magic, version |-> 1, recLength |-> 0,
     dimList |-> Absent, attList |-> Absent, varList |-> Absent,
     fill |-> <<0>>, cut |-> 0, given |-> TRUE]

\* a file with every kind of section: two record variables and a fixed CHAR variable
Rich ==
    [Minimal EXCEPT
       !.recLength = 2,
       !.dimList = Present(NC_DIMENSION, <<[name |-> DimName(1), size |-> 0],
                                           [name |-> DimName(2), size |-> 2]>>),
       !.attList = Present(NC_ATTRIBUTE, <<Att(AttName(1), CHAR, 3, <<104, 105, 0>>)>>),
       !.varList = Present(NC_VARIABLE,
                           <<Var(VarName(1), <<0, 1>>, SHORT, 4),
                             [Var(VarName(2), <<0>>, FLOAT, 4) EXCEPT
                                !.atts = <<Att(AttName(2), SHORT, 1, <<0, 7>>)>>],
                             Var(VarName(3), <<1>>, CHAR, 4)>>),
       !.fill = <<104, 105, 0, 0, 1, 0, 2, 255, 128, 3, 0>>]

\* magic and version bytes, over a file with one record variable
Magics == {Magic, <<67, 68, 88>>, <<0, 0, 0>>, <<67, 68, 198>>}

FamPrefix ==
    {[Minimal EXCEPT
        !.magic = m, !.version = ver, !.recLength = 1,
        !.dimList = Present(NC_DIMENSION, <<[name |-> DimName(1), size |-> 0]>>),
        !.varList = Present(NC_VARIABLE,
                            <<[Var(VarName(1), <<0>>, SHORT, 2) EXCEPT !.hi = hi]>>)]
       : m \in Magics, ver \in 0..3, hi \in 0..1}

\* the ways a list section can be framed
TagForms(tag) ==
    {Absent, Present(tag, <<>>),
     [tag |-> 0, count |-> 1, elems |-> <<>>],
     [tag |-> tag + 1, count |-> 0, elems |-> <<>>]}

FamTags ==
    {[Minimal EXCEPT !.version = ver, !.dimList = dl, !.attList = al, !.varList = vl]
       : ver \in 1..2, dl \in TagForms(NC_DIMENSION), al \in TagForms(NC_ATTRIBUTE),
         vl \in TagForms(NC_VARIABLE)}

\* dimension lists and the dimension ids of the variables
DimSizeLists == UNION {[1..n -> {0, 2}] : n \in 0..MaxDims}

DimIdLists == {<<>>} \cup {<<i>> : i \in 0..(MaxDims - 1)} \cup {<<MaxDims - 1, 0>>}

VarDimLists == UNION {[1..n -> DimIdLists] : n \in 0..MaxVars}

FamRec ==
    {[Minimal EXCEPT
        !.recLength = n,
        !.dimList = Present(NC_DIMENSION,
                            [i \in 1..Len(f) |-> [name |-> DimName(i), size |-> f[i]]]),
        !.varList = Present(NC_VARIABLE,
                            [i \in 1..Len(g) |-> Var(VarName(i), g[i], SHORT, 2 ^ i)]),
        !.fill = <<0, 1, 0, 2, 0, 3, 9>>]
       : n \in {0, MaxRecords}, f \in DimSizeLists, g \in VarDimLists}

\* one variable of every type, size and place, beside a record variable
Sizes == {0, 2, 3, 4, 8, 16}

FamTypes ==
    {[Minimal EXCEPT
        !.recLength = n,
        !.dimList = Present(NC_DIMENSION, <<[name |-> DimName(1), size |-> 0],
                                            [name |-> DimName(2), size |-> 2]>>),
        !.varList = Present(NC_VARIABLE, <<Var(VarName(1), ids, type, size),
                                            Var(VarName(2), <<0, 1>>, SHORT, 4)>>),
        !.fill = fill]
       : n \in 0..MaxRecords, ids \in {<<>>, <<0>>, <<1>>}, type \in 1..7,
         size \in Sizes, fill \in Fills}

\* global attributes of every type and count
FamAtts ==
    {[Minimal EXCEPT !.attList = Present(NC_ATTRIBUTE, <<Att(AttName(k), type, nelems, fill)>>)]
       : k \in 1..3, type \in 0..7, nelems \in 0..3, fill \in Fills}

\* files cut short
FamCut ==
    {[d EXCEPT !.cut = c] : d \in {Minimal, Rich}, c \in 0..Len(Encode(Rich))}

\* global attributes that share a name, after one whose name differs in case only
FamDup ==
    {[Minimal EXCEPT
        !.attList = Present(NC_ATTRIBUTE,
                            <<Att(<<77>>, BYTE, 1, <<9>>),
                              Att(AttName(1), t1, n1, fill),
                              Att(AttName(1), t2, 2, fill)>>)]
       : t1 \in {CHAR, SHORT}, t2 \in {CHAR, INT}, n1 \in 0..2, fill \in Fills}

\* a variable with two attributes, the second of every type code, after a global one
FamVarAtts ==
    {[Minimal EXCEPT
        !.version = ver,
        !.dimList = Present(NC_DIMENSION, <<[name |-> DimName(1), size |-> 2]>>),
        !.attList = Present(NC_ATTRIBUTE, <<Att(AttName(1), CHAR, 3, <<104, 105, 0>>)>>),
        !.varList = Present(NC_VARIABLE,
                            <<Var(VarName(1), <<>>, INT, 4),
                              [Var(VarName(2), <<0>>, SHORT, 4) EXCEPT
                                 !.atts = <<Att(AttName(2), SHORT, 1, <<0, 7>>),
                                            Att(AttName(3), type, nelems, <<1, 2, 3>>)>>]>>),
        !.fill = <<0, 1, 0, 2, 0, 3, 9>>]
       : ver \in 1..2, type \in 0..7, nelems \in {0, 2}}

\* a short file with one element in each list
Small ==
    [Minimal EXCEPT
       !.recLength = 1,
       !.dimList = Present(NC_DIMENSION, <<[name |-> DimName(1), size |-> 0]>>),
       !.attList = Present(NC_ATTRIBUTE, <<Att(AttName(1), SHORT, 1, <<0, 7>>)>>),
       !.varList = Present(NC_VARIABLE, <<Var(VarName(1), <<0>>, SHORT, 2)>>),
       !.fill = <<0, 1>>]

\* lists that declare more elements than the file holds, a few more or far more
FamCounts ==
    {[Small EXCEPT !.dimList.count = @ + k, !.version = ver] : k \in {1, 100}, ver \in 1..2}
      \cup {[Small EXCEPT !.attList.count = @ + k, !.version = ver] : k \in {1, 100}, ver \in 1..2}
      \cup {[Small EXCEPT !.varList.count = @ + k, !.version = ver] : k \in {1, 100}, ver \in 1..2}

\* the constructor called without data
FamNone == {[Minimal EXCEPT !.given = FALSE]}

Files == FamPrefix \cup FamTags \cup FamRec \cup FamTypes \cup FamAtts \cup FamCut
           \cup FamDup \cup FamVarAtts \cup FamCounts \cup FamNone

LookupNames == {VarName(1), VarName(2), AttName(1), Missing}

----------------------------------------------------------------------------
(* The reader as a state machine *)

\* a call as seen from outside: start and offset are the cursor before and after it
Call(op, arg, start, r) ==
    [op |-> op, arg |-> arg, ret |-> r.val, err |-> r.err,
     reads |-> r.buf.reads, start |-> start, offset |-> r.buf.offset]

\* two callers of getDataVariable on the one reader.  A call in progress holds its
\* local variables (variable, i, data, currentOffset) and three observations: began
\* (it has read), from (where the cursor stood at its first read), mixed / split (a
\* cursor operation of the other call fell after its seek / after its first read)
Callers == {1, 2}

Idle ==
    [pc |-> "idle", arg |-> ByName(<<>>), variable |-> NullIndex, i |-> 0,
     currentOffset |-> 0, ret |-> <<>>, err |-> NoErr,
     began |-> FALSE, from |-> 0, mixed |-> FALSE, split |-> FALSE]

Init ==
    /\ file \in Files
    /\ data = Encode(file)
    /\ state = "new"
    /\ header = NoHeader
    /\ offset = 0
    /\ last = Call("none", ByName(<<>>), 0, Res(NewBuffer, <<>>, NoErr))
    /\ kept = last
    /\ calls = [c \in Callers |-> Idle]

\* new NetCDFReader(data)
Construct ==
    /\ state = "new"
    /\ \E r \in {constructor} :
          /\ state' = IF Ok(r) THEN "ready" ELSE "failed"
          /\ header' = r.val
          /\ offset' = IF Ok(r) THEN r.buf.offset ELSE offset
          /\ last' = Call("constructor", ByName(<<>>), 0, Res(r.buf, <<>>, r.err))
    /\ UNCHANGED <<file, data, kept, calls>>

\* the cursor of the reader at the start of a call
Cursor == [offset |-> offset, reads |-> <<>>]

GetDataVariable(arg) ==
    /\ state = "ready"
    /\ \E r \in {getDataVariable(Cursor, header, arg)} :
          /\ offset' = r.buf.offset
          /\ last' = Call("getDataVariable", arg, offset, r)
    /\ UNCHANGED <<file, data, state, header, kept, calls>>

\* the same call, remembered
KeepDataVariable(arg) ==
    /\ state = "ready"
    /\ \E r \in {getDataVariable(Cursor, header, arg)} :
          /\ offset' = r.buf.offset
          /\ last' = Call("getDataVariable", arg, offset, r)
          /\ kept' = Call("getDataVariable", arg, offset, r)
    /\ UNCHANGED <<file, data, state, header, calls>>

DataVariableExists(name) ==
    /\ state = "ready"
    /\ last' = Call("dataVariableExists", ByName(name), offset,
                    Res(Cursor, dataVariableExists(header, name), NoErr))
    /\ UNCHANGED <<file, data, state, header, offset, kept, calls>>

AttributeExists(name) ==
    /\ state = "ready"
    /\ last' = Call("attributeExists", ByName(name), offset,
                    Res(Cursor, attributeExists(header, name), NoErr))
    /\ UNCHANGED <<file, data, state, header, offset, kept, calls>>

GetAttribute(name) ==
    /\ state = "ready"
    /\ last' = Call("getAttribute", ByName(name), offset,
                    Res(Cursor, getAttribute(header, name), NoErr))
    /\ UNCHANGED <<file, data, state, header, offset, kept, calls>>

GetDataVariableAsString(name) ==
    /\ state = "ready"
    /\ \E r \in {getDataVariableAsString(Cursor, header, name)} :
          /\ offset' = r.buf.offset
          /\ last' = Call("getDataVariableAsString", ByName(name), offset, r)
    /\ UNCHANGED <<file, data, state, header, kept, calls>>

\* a variant without the copy of the variables: the values read are stored in the header
DebugToStringInPlace ==
    /\ state = "ready"
    /\ \E r \in {toString(Cursor, header)} :
          /\ offset' = r.buf.offset
          /\ last' = Call("toString", ByName(<<>>), offset, r)
          /\ header' = [header EXCEPT !.variables =
                          [i \in DOMAIN header.variables |->
                             [name |-> header.variables[i].name,
                              dimensions |-> header.variables[i].dimensions,
                              attributes |-> header.variables[i].attributes,
                              type |-> header.variables[i].type,
                              size |-> header.variables[i].size,
                              offset |-> header.variables[i].offset,
                              record |-> header.variables[i].record,
                              value |-> r.val]]]
    /\ UNCHANGED <<file, data, state, kept, calls>>

DebugToString ==
    /\ state = "ready"
    /\ \E r \in {toString(Cursor, header)} :
          /\ offset' = r.buf.offset
          /\ last' = Call("toString", ByName(<<>>), offset, r)
    /\ UNCHANGED <<file, data, state, header, kept, calls>>

Version ==
    /\ state = "ready"
    /\ last' = Call("version", ByName(<<>>), offset, Res(Cursor, getVersion(header), NoErr))
    /\ UNCHANGED <<file, data, state, header, offset, kept, calls>>

Next ==
    \/ Construct
    \/ \E name \in LookupNames : GetDataVariable(ByName(name))
    \/ \E i \in 1..Len(header.variables) : GetDataVariable(ByObject(i))
    \/ \E name \in LookupNames : DataVariableExists(name)
    \/ \E name \in LookupNames : AttributeExists(name)
    \/ \E name \in LookupNames : GetAttribute(name)
    \/ Version
    \/ \E name \in LookupNames : GetDataVariableAsString(name)
    \/ DebugToString

Spec == Init /\ [][Next]_vars

\* repeated calls of getDataVariable on one reader, any one of them remembered
FilesRepeat == FamTypes \cup FamCut \cup FamPrefix

InitRepeat == Init /\ file \in FilesRepeat

NextRepeat ==
    \/ Construct
    \/ \E name \in LookupNames : GetDataVariable(ByName(name))
    \/ \E i \in 1..Len(header.variables) : GetDataVariable(ByObject(i))
    \/ \E name \in LookupNames : KeepDataVariable(ByName(name))
    \/ \E i \in 1..Len(header.variables) : KeepDataVariable(ByObject(i))

SpecRepeat == InitRepeat /\ [][NextRepeat]_vars

\* the number of turns of the loop of Type.nonRecord / Type.record
turns(h, variable) ==
    IF variable.record THEN h.recordDimension.length
    ELSE Quotient(variable.size, num2bytes(str2num(variable.type)))

\* what a cursor operation of caller c does to the call of the other caller
Disturb(c, new) ==
    [d \in Callers |->
       IF d = c THEN new
       ELSE IF calls[d].pc \in {"read", "back"}
       THEN [calls[d] EXCEPT !.mixed = TRUE, !.split = calls[d].began]
       ELSE calls[d]]

\* getDataVariable up to the loop: the lookup, this.buffer.seek(variable.offset) and
\* the allocation of the result
Begin(c, arg) ==
    /\ state = "ready"
    /\ calls[c].pc = "idle"
    /\ \E variable \in {resolveVariable(header, arg)} :
         IF variable = UndefinedIndex \/ variable = NullIndex
         THEN /\ calls' = [calls EXCEPT ![c] =
                            [Idle EXCEPT !.pc = "done", !.arg = arg,
                                         !.err = extract(Cursor, header, variable, arg).err]]
              /\ UNCHANGED offset
         ELSE /\ offset' = header.variables[variable].offset
              /\ \E n \in {turns(header, header.variables[variable])} :
                    calls' = Disturb(c, [Idle EXCEPT
                                          !.pc = IF n > 0 THEN "read" ELSE "done",
                                          !.arg = arg, !.variable = variable,
                                          !.err = IF n < 0 THEN LengthErr ELSE NoErr])
    /\ UNCHANGED <<file, data, state, header, last, kept>>

\* one turn of the loop up to its read: currentOffset = buffer.offset and readType
ReadTurn(c) ==
    /\ calls[c].pc = "read"
    /\ \E variable \in {header.variables[calls[c].variable]} :
       \E r \in {readType(Cursor, str2num(variable.type),
                          IF variable.record
                          THEN recordWidth(variable, str2num(variable.type)) ELSE 1)} :
         /\ offset' = r.buf.offset
         /\ calls' = Disturb(c,
              [calls[c] EXCEPT
                 !.began = TRUE,
                 !.from = IF calls[c].began THEN @ ELSE offset,
                 !.currentOffset = offset,
                 !.err = r.err,
                 !.ret = IF Ok(r) THEN Append(@, r.val) ELSE @,
                 !.i = IF Ok(r) /\ ~variable.record THEN @ + 1 ELSE @,
                 !.pc = IF ~Ok(r) THEN "done"
                        ELSE IF variable.record THEN "back"
                        ELSE IF calls[c].i + 1 < turns(header, variable) THEN "read"
                        ELSE "done"])
    /\ UNCHANGED <<file, data, state, header, last, kept>>

\* a variant that steps on from where the cursor stands
SeekNextFromCursor(c) ==
    /\ calls[c].pc = "back"
    /\ offset' = offset + header.recordDimension.recordStep
    /\ calls' = Disturb(c,
         [calls[c] EXCEPT
            !.i = @ + 1,
            !.pc = IF calls[c].i + 1 < header.recordDimension.length
                   THEN "read" ELSE "done"])
    /\ UNCHANGED <<file, data, state, header, last, kept>>

\* the end of a turn of Type.record: buffer.seek(currentOffset + step)
SeekNext(c) ==
    /\ calls[c].pc = "back"
    /\ offset' = calls[c].currentOffset + header.recordDimension.recordStep
    /\ calls' = Disturb(c,
         [calls[c] EXCEPT
            !.i = @ + 1,
            !.pc = IF calls[c].i + 1 < header.recordDimension.length
                   THEN "read" ELSE "done"])
    /\ UNCHANGED <<file, data, state, header, last, kept>>

\* files with record and non-record variables, whole and cut short
FilesShared ==
    {[Rich EXCEPT !.cut = c] : c \in {0, 3, 10}}
      \cup {d \in FamTypes : /\ d.recLength = MaxRecords
                             /\ d.varList.elems[1].type \in {CHAR, SHORT, DOUBLE}
                             /\ d.varList.elems[1].size \in {3, 4}}

InitShared == Init /\ file \in FilesShared

NextShared ==
    \/ Construct
    \/ \E c \in Callers, name \in LookupNames : Begin(c, ByName(name))
    \/ \E c \in Callers, i \in 1..Len(header.variables) : Begin(c, ByObject(i))
    \/ \E c \in Callers : ReadTurn(c)
    \/ \E c \in Callers : SeekNext(c)

SpecShared == InitShared /\ [][NextShared]_vars

\* the fields the header parser is made of, read one after the other from the end of
\* the fixed prefix (magic, version, numrecs): a u32 word, a name, an attribute
\* element.  The image is a run of u32 words, each between 0 and 6, so that every
\* word can serve as a length, a type code or a count.
Words(pattern) == Cat([i \in 1..16 |-> U32(pattern[((i - 1) % 4) + 1])])

InitFields ==
    /\ file \in {[words |-> pattern] : pattern \in [1..4 -> 0..6]}
    /\ data = Words(file.words)
    /\ state = "parsing"
    /\ header = NoHeader
    /\ offset = 8
    /\ last = Call("none", ByName(<<>>), 0, Res(NewBuffer, <<>>, NoErr))
    /\ kept = last
    /\ calls = [c \in Callers |-> Idle]

\* a field has been parsed, or the parse has ended in an error
Parsed(op, r) ==
    /\ state' = IF Ok(r) THEN "parsing" ELSE "failed"
    /\ offset' = r.buf.offset
    /\ last' = Call(op, ByName(<<>>), offset, r)
    /\ UNCHANGED <<file, data, header, kept, calls>>

ReadWord == state = "parsing" /\ Parsed("readUint32", readUint32(Cursor))

ReadName == state = "parsing" /\ Parsed("readName", readName(Cursor))

\* one turn of the loop of readInternal (attributes)
ReadAttribute == state = "parsing" /\ Parsed("attribute", attributesLoop(Cursor, 1, 0, <<>>))

NextFields == ReadWord \/ ReadName \/ ReadAttribute

SpecFields == InitFields /\ [][NextFields]_vars

\* Type.readType applied at the cursor, over images of 0 to 17 bytes in which NUL and
\* other bytes alternate in every way with period 3
Bytes(pattern, n) == [k \in 1..n |-> pattern[((k - 1) % 3) + 1]]

InitTypes ==
    /\ file \in {[pattern |-> pattern, length |-> n]
                   : pattern \in [1..3 -> {0, 65, 200}], n \in 0..17}
    /\ data = Bytes(file.pattern, file.length)
    /\ state = "reading"
    /\ header = NoHeader
    /\ offset = 0
    /\ last = Call("none", [type |-> 0, size |-> 0], 0, Res(NewBuffer, <<>>, NoErr))
    /\ kept = last
    /\ calls = [c \in Callers |-> Idle]

ReadType(type, size) ==
    /\ state = "reading"
    /\ \E r \in {readType(Cursor, type, size)} :
          /\ state' = IF Ok(r) THEN "reading" ELSE "failed"
          /\ offset' = r.buf.offset
          /\ last' = Call("readType", [type |-> type, size |-> size], offset, r)
    /\ UNCHANGED <<file, data, header, kept, calls>>

NextTypes == \E type \in 0..7, size \in 0..4 : ReadType(type, size)

SpecTypes == InitTypes /\ [][NextTypes]_vars

----------------------------------------------------------------------------
(* Properties.  Each is stated over the observation `last` of the latest    *)
(* call, the header the constructor produced, and the description `file`    *)
(* the image was written from.                                              *)

Range(s) == {s[i] : i \in DOMAIN s}

Min(S) == CHOOSE x \in S : \A y \in S : x <= y

\* the byte offsets o, ..., o + n - 1
Slice(o, n) == o..(o + n - 1)

\* the byte offsets a call has read
Covered(reads) == UNION {Slice(r[1], r[2]) : r \in Range(reads)}

\* the indices of the entries of a list that bear a name
Named(list, name) == {i \in DOMAIN list : list[i].name = name}

\* the value of the element of a type stored at byte offset o of the image
Decode(type, o) ==
    CASE type = BYTE -> ByteAt(o)
      [] type = CHAR -> fromCharCode(Signed8(ByteAt(o)))
      [] type = SHORT -> Signed16(Word16(o))
      [] type \in {INT, FLOAT} -> SignedWord32(o)
      [] type = DOUBLE -> <<SignedWord32(o), SignedWord32(o + 4)>>

Items(type, o, n) == [k \in 1..n |-> Decode(type, o + (k - 1) * num2bytes(type))]

\* the n elements stored from byte offset o, as the JavaScript value they are read into
Stored(type, o, n) ==
    CASE type = BYTE -> Value("bytes", Items(type, o, n))
      [] type = CHAR -> Value("text", trimNull(Items(type, o, n)))
      [] type \in {SHORT, INT, FLOAT, DOUBLE} ->
           Value(IF n = 1 THEN "scalar" ELSE "array", Items(type, o, n))
      [] OTHER -> Value("undefined", <<>>)

\* the latest call was getDataVariable for a variable of the header
Got ==
    /\ last.op = "getDataVariable"
    /\ IF last.arg.byName THEN Named(header.variables, last.arg.name) # {} ELSE TRUE

\* that variable
Target ==
    header.variables[IF last.arg.byName THEN Min(Named(header.variables, last.arg.name))
                     ELSE last.arg.index]

TargetType == str2num(Target.type)

Records == 0..(header.recordDimension.length - 1)

RecordAt(i) == Target.offset + i * header.recordDimension.recordStep

----------------------------------------------------------------------------
\* C1: dataVariableExists(n) returns true if and only if a variable of the header is
\* named n, and attributeExists(n) returns true if and only if a global attribute is
\* named n; both return false for a name that matches no entry.
C1_ExistsIffNamed ==
    /\ last.op = "dataVariableExists"
         => (last.ret <=> Named(header.variables, last.arg.name) # {})
    /\ last.op = "attributeExists"
         => (last.ret <=> Named(header.globalAttributes, last.arg.name) # {})

----------------------------------------------------------------------------
\* C2: getDataVariable called with a name that matches no variable fails with the
\* notNetcdf error 'Not a valid NetCDF v3.x file: variable not found: <name>', and the
\* cursor is not moved and nothing is read before the error.
C2_MissingNameNotFound ==
    (/\ last.op = "getDataVariable"
     /\ last.arg.byName
     /\ Named(header.variables, last.arg.name) = {})
      => /\ last.err = notNetcdf(TRUE, "variable not found: ", last.arg.name)
         /\ last.offset = last.start
         /\ last.reads = <<>>

----------------------------------------------------------------------------
\* what getDataVariable does for a record variable: it succeeds, the result has one
\* entry per record, the bytes read are the Target.size bytes of each record i from
\* Target.offset + i * recordStep, and entry i holds the elements stored there
RecordsRead ==
    /\ last.err = NoErr
    /\ Len(last.ret) = header.recordDimension.length
    /\ Covered(last.reads) = UNION {Slice(RecordAt(i), Target.size) : i \in Records}
    /\ \A i \in Records :
         \E n \in 0..Target.size :
            /\ n * num2bytes(TargetType) = Target.size
            /\ last.ret[i + 1] = Stored(TargetType, RecordAt(i), n)

\* the variable has a known type, a size that is a positive multiple of the width of
\* its type, and every one of its records lies inside the image
RecordsStored ==
    /\ Target.type # "undefined"
    /\ Target.size > 0
    /\ Target.size % num2bytes(TargetType) = 0
    /\ \A i \in Records : RecordAt(i) + Target.size <= Len(data)

----------------------------------------------------------------------------
\* what getDataVariable does for a non-record variable: it succeeds with
\* Target.size / num2bytes(type) elements, element k being the single value stored at
\* Target.offset + k * num2bytes(type), it leaves the cursor at Target.offset +
\* Target.size and reads no byte outside [Target.offset, Target.offset + Target.size)
RangeRead ==
    /\ last.err = NoErr
    /\ Len(last.ret) * num2bytes(TargetType) = Target.size
    /\ \A k \in 0..(Len(last.ret) - 1) :
         last.ret[k + 1] = Stored(TargetType, Target.offset + k * num2bytes(TargetType), 1)
    /\ last.offset = Target.offset + Target.size
    /\ Covered(last.reads) \subseteq Slice(Target.offset, Target.size)

\* the variable has a known type, a size that is a multiple of the width of its type,
\* and its range lies inside the image
RangeStored ==
    /\ Target.type # "undefined"
    /\ Target.size % num2bytes(TargetType) = 0
    /\ Target.offset + Target.size <= Len(data)

\* C4 as stated: for every non-record variable, getDataVariable returns
\* v.size / num2bytes(type) elements, element k decoded at v.offset + k * num2bytes(type),
\* ends with the cursor at v.offset + v.size and reads no byte outside the range.
C4_RangeReadAlways == (Got /\ ~Target.record) => RangeRead

\* C4 amended: the same, for a non-record variable of a known type whose size is a
\* multiple of the width of its type and whose range lies inside the image.
C4_RangeReadWhenStored == (Got /\ ~Target.record /\ RangeStored) => RangeRead

\* a non-record variable of several multi-byte elements has been read
C4_Witness ==
    /\ Got /\ ~Target.record /\ RangeStored /\ RangeRead
    /\ Len(last.ret) >= 2
    /\ num2bytes(TargetType) >= 2
    /\ last.ret[1] # last.ret[2]

----------------------------------------------------------------------------
\* the dimensions of the header that have size 0
Unlimited == {i \in DOMAIN header.dimensions : header.dimensions[i].size = NC_UNLIMITED}

\* C5: the first dimension (lowest index) whose size is 0 becomes the record
\* dimension, by its 0-based index and its name, also when a later dimension has
\* size 0 too.
C5_FirstUnlimitedIsRecord ==
    (state = "ready" /\ Unlimited # {})
      => /\ header.recordDimension.id = Min(Unlimited) - 1
         /\ header.recordDimension.name = header.dimensions[Min(Unlimited)].name

----------------------------------------------------------------------------
\* a list section of the file that the parser accepts
Framed(l, tag) == l = Absent \/ (l.tag = tag /\ l.count = Len(l.elems))

ValidAtts(elems) == \A i \in DOMAIN elems : elems[i].type \in BYTE..DOUBLE

\* a file in which nothing but the type code of a variable can make the parser fail
SoundButTypes(d) ==
    /\ d.given /\ d.cut = 0 /\ d.magic = Magic /\ d.version \in 0..2
    /\ Framed(d.dimList, NC_DIMENSION)
    /\ Framed(d.attList, NC_ATTRIBUTE) /\ ValidAtts(d.attList.elems)
    /\ Framed(d.varList, NC_VARIABLE)
    /\ \A i \in DOMAIN d.varList.elems :
         ValidAtts(d.varList.elems[i].atts) /\ d.varList.elems[i].hi = 0

UnknownTypes(d) ==
    {i \in DOMAIN d.varList.elems : d.varList.elems[i].type \notin BYTE..DOUBLE}

\* C6: a variable whose type code lies outside 1..6 makes the constructor fail with
\* 'non valid type <code>', and no header holding a variable of unknown type is produced.
C6_UnknownTypeRejected ==
    /\ (last.op = "constructor" /\ SoundButTypes(file) /\ UnknownTypes(file) # {})
         => last.err = notNetcdf(TRUE, "non valid type ",
                                 <<file.varList.elems[Min(UnknownTypes(file))].type>>)
    /\ state = "ready"
         => \A i \in DOMAIN header.variables : header.variables[i].type # "undefined"

----------------------------------------------------------------------------
RecordVariables == {i \in DOMAIN header.variables : header.variables[i].record}

VariableSizes == [i \in DOMAIN header.variables |-> header.variables[i].size]

\* a list holds as many elements as it declares; the tag of the list of variables is
\* read where the file puts it when the two lists before it are such
Exact(l) == l.tag = ZERO \/ l.count = Len(l.elems)

\* C7 as stated: after header parsing, recordStep equals the sum of size over the
\* variables whose record flag is true.
C7_RecordStepIsSum ==
    state = "ready"
      => header.recordDimension.recordStep = SumOver(VariableSizes, RecordVariables)

\* C7 amended: after header parsing, recordStep equals the sum of size over the
\* variables whose record flag is true when the file has a list of variables, and is
\* null when that list is absent (a zero tag).
C7_RecordStepIsSumOrNull ==
    state = "ready"
      => /\ \/ header.recordDimension.recordStep = NullStep /\ header.variables = <<>>
            \/ header.recordDimension.recordStep = SumOver(VariableSizes, RecordVariables)
         /\ (Exact(file.dimList) /\ Exact(file.attList))
              => IF file.varList.tag = ZERO
                 THEN header.recordDimension.recordStep = NullStep
                 ELSE header.recordDimension.recordStep
                        = SumOver(VariableSizes, RecordVariables)

\* a header with a record variable and a non-record variable of positive size
C7_Witness ==
    /\ state = "ready"
    /\ RecordVariables # {}
    /\ \E i \in DOMAIN header.variables : i \notin RecordVariables /\ VariableSizes[i] > 0
    /\ header.recordDimension.recordStep = SumOver(VariableSizes, RecordVariables)
    /\ header.recordDimension.recordStep > 0

----------------------------------------------------------------------------
\* C8: for every parsed variable, record is true if and only if its list of dimension
\* ids is non-empty and its first id is the id of the record dimension; so it is false
\* for a variable of rank 0, for a variable whose first dimension is another one, and
\* for every variable of a file without a record dimension.
C8_RecordIffFirstDimension ==
    state = "ready"
      => \A i \in DOMAIN header.variables :
           header.variables[i].record
             <=> /\ header.variables[i].dimensions # <<>>
                 /\ header.recordDimension.id # NullId
                 /\ header.variables[i].dimensions[1] = header.recordDimension.id

\* a header with a record variable and a non-record variable whose second dimension
\* is the record dimension
C8_Witness ==
    /\ state = "ready"
    /\ \E i, j \in DOMAIN header.variables :
         /\ header.variables[i].record
         /\ ~header.variables[j].record
         /\ Len(header.variables[j].dimensions) = 2
         /\ header.variables[j].dimensions[2] = header.recordDimension.id

----------------------------------------------------------------------------
\* C9: when the first three bytes of the input are not 'C', 'D', 'F' the constructor
\* fails with 'should start with CDF', having read neither the version byte nor any
\* field of the header.
C9_BadMagicRejected ==
    (/\ last.op = "constructor"
     /\ file.given
     /\ Len(data) >= 3
     /\ SubSeq(data, 1, 3) # Magic)
      => /\ state = "failed"
         /\ last.err = notNetcdf(TRUE, "should start with CDF", <<>>)
         /\ Covered(last.reads) = Slice(0, 3)

\* the constructor has rejected an image that differs from 'CDF' in its third byte only
C9_Witness ==
    /\ last.op = "constructor"
    /\ file.given
    /\ Len(data) > 4
    /\ SubSeq(data, 1, 2) = SubSeq(Magic, 1, 2)
    /\ data[3] # Magic[3]
    /\ last.err = notNetcdf(TRUE, "should start with CDF", <<>>)

----------------------------------------------------------------------------
\* C10: after a correct magic the constructor fails with 'unknown version' if and
\* only if the version byte is greater than 2; with a version byte of 0, 1 or 2 it
\* goes on to parse the header, whose first field is read at offset 4.
C10_VersionAboveTwoRejected ==
    (/\ last.op = "constructor"
     /\ file.given
     /\ Len(data) >= 4
     /\ SubSeq(data, 1, 3) = Magic)
      => /\ (last.err = notNetcdf(TRUE, "unknown version", <<>>)) <=> (data[4] > 2)
         /\ data[4] <= 2
              => /\ Len(data) >= 8 => <<4, 4>> \in Range(last.reads)
                 /\ Len(data) < 8 => last.err = RangeErr
                 /\ state = "ready" => header.version = data[4]

\* the constructor has rejected an image of version 3
C10_Witness ==
    /\ last.op = "constructor"
    /\ file.given
    /\ Len(data) > 4
    /\ SubSeq(data, 1, 3) = Magic
    /\ data[4] = 3
    /\ last.err = notNetcdf(TRUE, "unknown version", <<>>)

----------------------------------------------------------------------------
\* a file whose magic, version, list framing and attribute types the parser accepts
Readable(d) ==
    /\ d.given /\ d.cut = 0 /\ d.magic = Magic /\ d.version \in 0..2
    /\ Framed(d.dimList, NC_DIMENSION)
    /\ Framed(d.attList, NC_ATTRIBUTE) /\ ValidAtts(d.attList.elems)
    /\ Framed(d.varList, NC_VARIABLE)
    /\ \A i \in DOMAIN d.varList.elems : ValidAtts(d.varList.elems[i].atts)

\* the variables of a file written with a non-zero high offset word
HighWords(d) ==
    {i \in DOMAIN d.varList.elems : d.version = 2 /\ d.varList.elems[i].hi # 0}

\* the offsets written into the header of a file, and the length of that header
FileOffsets(d) == VarOffsets(d, HeaderLen(d), VarSizes(d), RecVars(d), FixVars(d))

\* C11: in a version 2 file the offset of a variable is two u32 words, high word
\* first: a non-zero high word makes the constructor fail with 'offsets larger than
\* 4GB not supported', otherwise the offset is the low word.  In a version 1 file the
\* offset is the single u32, and no second word is consumed (the header ends where
\* the writer ended it).
C11_OffsetWords ==
    (last.op = "constructor" /\ Readable(file) /\ file.version \in 1..2)
      => IF HighWords(file) # {}
         THEN last.err = notNetcdf(TRUE, "offsets larger than 4GB not supported", <<>>)
         ELSE /\ last.err = NoErr
              /\ Len(header.variables) = Len(file.varList.elems)
              /\ \A i \in DOMAIN header.variables :
                   header.variables[i].offset = FileOffsets(file)[i]
              /\ last.offset = HeaderLen(file)

\* a version 2 file with a variable has been parsed, its offset taken from the low word
C11_Witness ==
    /\ last.op = "constructor" /\ Readable(file) /\ file.version = 2
    /\ file.varList.elems # <<>>
    /\ HighWords(file) = {}
    /\ last.err = NoErr
    /\ header.variables[1].offset = FileOffsets(file)[1]
    /\ header.variables[1].offset > 0

----------------------------------------------------------------------------
\* the error the framing of a list section calls for, NoErr when it is accepted
FramingError(l, tag, wrongEmpty, wrongTag) ==
    IF l.tag = ZERO
    THEN (IF l.count # ZERO THEN notNetcdf(TRUE, wrongEmpty, <<>>) ELSE NoErr)
    ELSE (IF l.tag # tag THEN notNetcdf(TRUE, wrongTag, <<>>) ELSE NoErr)

DimensionsFraming(d) ==
    FramingError(d.dimList, NC_DIMENSION, "wrong empty tag for list of dimensions",
                 "wrong tag for list of dimensions")

AttributesFraming(d) ==
    FramingError(d.attList, NC_ATTRIBUTE, "wrong empty tag for list of attributes",
                 "wrong tag for list of attributes")

VariablesFraming(d) ==
    FramingError(d.varList, NC_VARIABLE, "wrong empty tag for list of variables",
                 "wrong tag for list of variables")

\* a file in which nothing but the framing of the three lists can make the parser fail
SoundButFraming(d) ==
    /\ d.given /\ d.cut = 0 /\ d.magic = Magic /\ d.version \in 0..2
    /\ \A l \in {d.dimList, d.attList, d.varList} : l.tag # ZERO => l.count = Len(l.elems)
    /\ ValidAtts(d.attList.elems)
    /\ UnknownTypes(d) = {}
    /\ \A i \in DOMAIN d.varList.elems :
         ValidAtts(d.varList.elems[i].atts) /\ d.varList.elems[i].hi = 0

\* C12: for each of the three list sections, a zero tag followed by a non-zero word
\* fails with 'wrong empty tag for list of ...', a non-zero tag other than the
\* expected one (10 dimensions, 12 attributes, 11 variables) fails with 'wrong tag for
\* list of ...', and every other section is accepted; the sections are read in the
\* order dimensions, attributes, variables, so the first one refused gives the error.
C12_ListFraming ==
    (last.op = "constructor" /\ SoundButFraming(file))
      => last.err =
           IF DimensionsFraming(file) # NoErr THEN DimensionsFraming(file)
           ELSE IF AttributesFraming(file) # NoErr THEN AttributesFraming(file)
           ELSE VariablesFraming(file)

\* the constructor has refused a list of variables with a zero tag and a non-zero
\* word after it, having accepted the two lists before it
C12_Witness ==
    /\ last.op = "constructor" /\ SoundButFraming(file)
    /\ DimensionsFraming(file) = NoErr /\ file.dimList.tag = NC_DIMENSION
    /\ AttributesFraming(file) = NoErr /\ file.attList.tag = ZERO
    /\ file.varList.tag = ZERO /\ file.varList.count # ZERO
    /\ last.err = notNetcdf(TRUE, "wrong empty tag for list of variables", <<>>)

----------------------------------------------------------------------------
\* a list section with no element, in one of its two encodings
EmptySection(l, tag) == l = Absent \/ l = Present(tag, <<>>)

\* a file with no dimension, no global attribute and no variable
EmptyFile(d) ==
    /\ d.given /\ d.cut = 0 /\ d.magic = Magic /\ d.version \in 0..2
    /\ EmptySection(d.dimList, NC_DIMENSION)
    /\ EmptySection(d.attList, NC_ATTRIBUTE)
    /\ EmptySection(d.varList, NC_VARIABLE)

\* C13: a file whose three lists are each encoded as absent (tag 0, length 0) or as
\* present and empty (expected tag, length 0) parses to empty dimensions,
\* globalAttributes and variables with no record dimension id; either encoding takes
\* 8 bytes per list, so the parser reads the 32 bytes of the image and stops there.
C13_EmptyLists ==
    (last.op = "constructor" /\ EmptyFile(file))
      => /\ last.err = NoErr
         /\ header.dimensions = <<>>
         /\ header.globalAttributes = <<>>
         /\ header.variables = <<>>
         /\ header.recordDimension.id = NullId
         /\ Covered(last.reads) = Slice(0, 8 + 3 * 8)
         /\ last.offset = 8 + 3 * 8

\* a file with an absent list between two present and empty ones has been parsed
C13_Witness ==
    /\ last.op = "constructor" /\ EmptyFile(file)
    /\ file.dimList = Present(NC_DIMENSION, <<>>)
    /\ file.attList = Absent
    /\ file.varList = Present(NC_VARIABLE, <<>>)
    /\ state = "ready"
    /\ header.variables = <<>>

----------------------------------------------------------------------------
\* C14: when recordDimension.length is 0, getDataVariable returns an empty sequence for
\* every record variable and reads no byte, whatever the offset, the size and the type
\* of the variable.
C14_NoRecordsNoData ==
    (Got /\ Target.record /\ header.recordDimension.length = 0)
      => /\ last.err = NoErr
         /\ last.ret = <<>>
         /\ last.reads = <<>>

\* a record variable of positive size has been asked for in a file with no record
C14_Witness ==
    /\ Got /\ Target.record /\ header.recordDimension.length = 0
    /\ Target.size > 0
    /\ last.ret = <<>>
    /\ last.offset = Target.offset

----------------------------------------------------------------------------
\* C15: getAttribute(name) returns the value of the first global attribute, in header
\* order, whose name equals name exactly (case-sensitive); when no global attribute
\* has that name it returns null and raises no error.
C15_FirstAttributeOrNull ==
    last.op = "getAttribute"
      => /\ last.err = NoErr
         /\ last.ret =
              IF Named(header.globalAttributes, last.arg.name) = {}
              THEN NullValue
              ELSE header.globalAttributes[Min(Named(header.globalAttributes,
                                                     last.arg.name))].value

\* the value of the first of two attributes of one name has been returned, the two
\* standing after an attribute whose name differs in case
C15_Witness ==
    /\ last.op = "getAttribute"
    /\ \E i, j \in Named(header.globalAttributes, last.arg.name) :
         /\ 1 < i /\ i < j
         /\ header.globalAttributes[i].value # header.globalAttributes[j].value
         /\ last.ret = header.globalAttributes[i].value

----------------------------------------------------------------------------
\* C16: the version getter returns 'classic format' exactly when the stored version,
\* which is the version byte of the image, is 1, and '64-bit offset format' for every
\* other accepted version (2 and also 0).
C16_VersionLabel ==
    last.op = "version"
      => /\ header.version = data[4]
         /\ header.version \in 0..2
         /\ last.ret = IF header.version = 1 THEN "classic format"
                       ELSE "64-bit offset format"

\* the getter has been read on a file of version 0
C16_Witness ==
    /\ last.op = "version"
    /\ data[4] = 0
    /\ last.ret = "64-bit offset format"

----------------------------------------------------------------------------
\* the latest call asks for the variable the remembered call asked for
Repeated == Got /\ kept.op = "getDataVariable" /\ kept.arg = last.arg

\* C17: getDataVariable is idempotent for a non-record variable: on one reader, a call
\* returns (or throws) what every earlier call for the same variable returned (or
\* threw), also when calls for other variables came in between and moved the cursor.
C17_RepeatedCallsAgree ==
    (Repeated /\ ~Target.record)
      => /\ last.ret = kept.ret
         /\ last.err = kept.err

\* a non-record variable has been read twice, from different cursor positions, with
\* a call for the other variable in between
C17_Witness ==
    /\ Repeated /\ ~Target.record
    /\ last.start # kept.start
    /\ last.start # kept.offset
    /\ last.err = NoErr
    /\ Len(last.ret) >= 2
    /\ last.ret = kept.ret

----------------------------------------------------------------------------
\* C18: after construction succeeds, no call of getAttribute, attributeExists,
\* dataVariableExists, getDataVariable, getDataVariableAsString, toString (or of the
\* version getter) changes the header: version, recordDimension, dimensions,
\* globalAttributes and variables stay what the constructor made them, as does the
\* image; only the cursor offset changes.
C18_HeaderFrozen ==
    [][state = "ready" => (header' = header /\ data' = data /\ state' = state)]_vars

\* toString has read the variables of a header and moved the cursor
C18_Witness ==
    /\ last.op = "toString"
    /\ last.err = NoErr
    /\ Len(header.variables) >= 2
    /\ last.offset # last.start
    /\ last.reads # <<>>

----------------------------------------------------------------------------
\* the part of getDataVariable after the seek, run alone from the offset `from`
extractFrom(h, variable, from) ==
    IF variable.record
    THEN record([offset |-> from, reads |-> <<>>], variable, h.recordDimension)
    ELSE nonRecord([offset |-> from, reads |-> <<>>], variable)

\* the same outcome: the values returned and the error thrown
Same(call, r) == call.ret = r.val /\ call.err = r.err

\* caller c has finished a call for a variable that has data, and the whole call of
\* the other caller ran between its seek and its first read
Overtaken(c) ==
    /\ calls[c].pc = "done"
    /\ calls[c].began
    /\ calls[c].mixed
    /\ ~calls[c].split

\* C19: the cursor is shared by the calls in progress, so a call is only as good as
\* the cursor it finds.  A finished getDataVariable call returns what it returns when
\* run alone as long as no cursor operation of another call fell between its own; its
\* reads start where the cursor stands at its first read, so a call whose seek was
\* followed by another call's cursor operations returns what is stored from the
\* offset the other call left, which can differ from what it returns alone (witness).
C19_SharedCursor ==
    \A c \in Callers :
      calls[c].pc = "done" =>
        /\ ~calls[c].mixed => Same(calls[c], getDataVariable(Cursor, header, calls[c].arg))
        /\ (calls[c].began /\ ~calls[c].split) =>
             Same(calls[c], extractFrom(header, header.variables[calls[c].variable],
                                        calls[c].from))

\* a call overtaken by another returned, without an error, other values than alone
C19_Witness ==
    \E c \in Callers :
      /\ Overtaken(c)
      /\ calls[c].err = NoErr
      /\ getDataVariable(Cursor, header, calls[c].arg).err = NoErr
      /\ calls[c].ret # getDataVariable(Cursor, header, calls[c].arg).val
      /\ calls[c].from # header.variables[calls[c].variable].offset

----------------------------------------------------------------------------
\* the constructor or getDataVariable has thrown
Thrown == last.op \in {"constructor", "getDataVariable"} /\ last.err # NoErr

Prefixed == last.err.prefix = "Not a valid NetCDF v3.x file: "

\* the type codes of the attributes of a file, global and of its variables
AttributeTypes(d) ==
    {d.attList.elems[i].type : i \in DOMAIN d.attList.elems}
      \cup UNION {{d.varList.elems[v].atts[i].type : i \in DOMAIN d.varList.elems[v].atts}
                    : v \in DOMAIN d.varList.elems}

\* the reasons the code passes to utils.notNetcdf
NotNetcdfReasons ==
    {"should start with CDF", "unknown version",
     "wrong empty tag for list of dimensions", "wrong tag for list of dimensions",
     "wrong empty tag for list of attributes", "wrong tag for list of attributes",
     "wrong empty tag for list of variables", "wrong tag for list of variables",
     "offsets larger than 4GB not supported", "non valid type ", "variable not found: "}

\* what in the file or in the call makes the code throw the error through notNetcdf
\* (for a file whose lists declare the elements they hold)
NotNetcdfCause ==
    CASE last.err.reason = "should start with CDF" -> file.magic # Magic
      [] last.err.reason = "unknown version" -> file.version > 2
      [] last.err.reason \in {"wrong empty tag for list of dimensions",
                              "wrong tag for list of dimensions"} ->
           last.err = DimensionsFraming(file)
      [] last.err.reason \in {"wrong empty tag for list of attributes",
                              "wrong tag for list of attributes"} ->
           last.err = AttributesFraming(file)
      [] last.err.reason \in {"wrong empty tag for list of variables",
                              "wrong tag for list of variables"} ->
           last.err = VariablesFraming(file)
      [] last.err.reason = "offsets larger than 4GB not supported" -> HighWords(file) # {}
      [] last.err.reason = "non valid type " ->
           IF last.op = "constructor"
           THEN \E type \in AttributeTypes(file) \ (BYTE..DOUBLE) : last.err.arg = <<type>>
           ELSE Got /\ TargetType \notin BYTE..DOUBLE /\ last.err.arg = <<TargetType>>
      [] OTHER -> FALSE

\* what makes the code throw an error that does not come from notNetcdf
OtherCause ==
    CASE last.err = EmptyErr -> last.op = "constructor" /\ ~file.given
      [] last.err = NullDerefErr -> last.op = "getDataVariable" /\ ~Got
      [] last.err = RangeErr -> last.offset + 8 > Len(data)
      [] last.err = LengthErr ->
           /\ Got
           /\ IF TargetType \in BYTE..DOUBLE
              THEN Target.size % num2bytes(TargetType) # 0
              ELSE ~Target.record /\ Target.size > 0
      [] OTHER -> FALSE

----------------------------------------------------------------------------
\* the size the format gives a variable of one element: the width of the element
\* rounded up to a multiple of 4
ScalarSize(type) == 4 * ((num2bytes(type) + 3) \div 4)

\* C21: a variable with zero dimensions is accepted by the header parser as a
\* non-record variable, and getDataVariable on it returns exactly one element (for a
\* variable of a known type whose size is that of one element padded to 4 bytes and
\* whose bytes lie inside the image).
C21_ScalarIsOneElement ==
    (Got /\ Target.dimensions = <<>>)
      => /\ ~Target.record
         /\ (TargetType \in BYTE..DOUBLE /\ Target.size = ScalarSize(TargetType)
               /\ Target.offset + Target.size <= Len(data))
              => (last.err = NoErr /\ Len(last.ret) = 1)

----------------------------------------------------------------------------
\* the latest call was getDataVariableAsString for a variable of the header
GotString ==
    /\ last.op = "getDataVariableAsString"
    /\ Named(header.variables, last.arg.name) # {}

\* the characters stored in the range of the variable
Payload == Items(CHAR, Target.offset, Target.size)

\* a string without its last character when that character is NUL
OneNulRemoved(s) ==
    IF s # <<>> /\ s[Len(s)] = 0 THEN SubSeq(s, 1, Len(s) - 1) ELSE s

\* C22: for a non-record CHAR variable (whose range lies inside the image),
\* getDataVariableAsString returns the payload characters in order, with exactly one
\* trailing NUL removed when the payload ends in NUL and every earlier NUL retained.
C22_StringKeepsEarlierNuls ==
    (GotString /\ ~Target.record /\ Target.type = "char"
       /\ Target.offset + Target.size <= Len(data))
      => /\ last.err = NoErr
         /\ last.ret = Chars(OneNulRemoved(Payload))

----------------------------------------------------------------------------
\* C23: after a successful construction, for every non-record variable v of the
\* header the byte range [v.offset, v.offset + v.size) lies within the byte image (a
\* file that declares a non-record variable whose range passes the end of the image
\* yields no usable header).
C23_RangesInsideImage ==
    state = "ready"
      => \A i \in DOMAIN header.variables :
           ~header.variables[i].record
             => header.variables[i].offset + header.variables[i].size <= Len(data)

----------------------------------------------------------------------------
\* the name of a type code of the format
TypeName(code) ==
    CASE code = 1 -> "byte" [] code = 2 -> "char" [] code = 3 -> "short"
      [] code = 4 -> "int" [] code = 5 -> "float" [] code = 6 -> "double"

\* element i of a list of attributes that starts at byte offset base: its type code
\* and the offset at which its type word ends
AttField(base, elems, i) ==
    [type |-> elems[i].type,
     end |-> base + 8 + Len(Cat([j \in 1..(i - 1) |-> EncAtt(elems[j])]))
               + Len(EncName(elems[i].name)) + 4]

\* where the list of attributes of variable v of a file starts
VarAttBase(d, v) ==
    8 + Len(EncDims(d.dimList)) + Len(EncAtts(d.attList)) + 8
      + Len(Cat([j \in 1..(v - 1) |-> EncVar(d.varList.elems[j], d.version, 0)]))
      + Len(EncName(d.varList.elems[v].name)) + 4 + 4 * Len(d.varList.elems[v].dims)

\* the attributes of a file in the order they are parsed: the global ones, then
\* those of each variable
AttFields(d) ==
    [i \in DOMAIN d.attList.elems |-> AttField(8 + Len(EncDims(d.dimList)), d.attList.elems, i)]
      \o Cat([v \in DOMAIN d.varList.elems |->
                [i \in DOMAIN d.varList.elems[v].atts |->
                   AttField(VarAttBase(d, v), d.varList.elems[v].atts, i)]])

InvalidAtts(d) == {k \in DOMAIN AttFields(d) : AttFields(d)[k].type \notin 1..6}

\* a file in which nothing but the type code of an attribute can make the parser fail
SoundButAtts(d) ==
    /\ d.given /\ d.cut = 0 /\ d.magic = Magic /\ d.version \in 0..2
    /\ Framed(d.dimList, NC_DIMENSION)
    /\ Framed(d.attList, NC_ATTRIBUTE)
    /\ Framed(d.varList, NC_VARIABLE)
    /\ \A i \in DOMAIN d.varList.elems : d.varList.elems[i].hi = 0

\* C24: an attribute element, global or of a variable, whose type code lies outside
\* 1..6 makes header parsing fail with 'non valid type <code>' right after the type
\* word: the cursor stands at its end and neither the element count nor the payload
\* has been read.  When every code lies in 1..6 parsing succeeds and the type of each
\* attribute is the matching name byte, char, short, int, float or double.
C24_AttributeTypeChecked ==
    (last.op = "constructor" /\ SoundButAtts(file))
      => IF InvalidAtts(file) # {}
         THEN /\ last.err = notNetcdf(TRUE, "non valid type ",
                                      <<AttFields(file)[Min(InvalidAtts(file))].type>>)
              /\ last.offset = AttFields(file)[Min(InvalidAtts(file))].end
              /\ \A r \in Range(last.reads) :
                   r[1] + r[2] <= AttFields(file)[Min(InvalidAtts(file))].end
         ELSE /\ last.err = NoErr
              /\ \A i \in DOMAIN header.globalAttributes :
                   header.globalAttributes[i].type = TypeName(file.attList.elems[i].type)
              /\ \A v \in DOMAIN header.variables :
                   \A i \in DOMAIN header.variables[v].attributes :
                     header.variables[v].attributes[i].type
                       = TypeName(file.varList.elems[v].atts[i].type)

\* the second attribute of a variable has been refused for its type code 7, after a
\* global attribute and a first attribute of valid types
C24_Witness ==
    /\ last.op = "constructor"
    /\ file \in FamVarAtts
    /\ file.varList.elems[2].atts[2].type = 7
    /\ file.varList.elems[2].atts[2].nelems = 2
    /\ last.err = notNetcdf(TRUE, "non valid type ", <<7>>)
    /\ last.offset = AttFields(file)[3].end

----------------------------------------------------------------------------
\* the number of bytes a field of n bytes takes with its padding
Padded(n) == n + ((4 - (n % 4)) % 4)

\* the u32 stored at byte offset o of the image
WordAt(o) == ((data[o + 1] * 256 + data[o + 2]) * 256 + data[o + 3]) * 256 + data[o + 4]

\* the width of an element of a type of the format
Width(type) ==
    CASE type \in {1, 2} -> 1 [] type = 3 -> 2 [] type \in {4, 5} -> 4 [] type = 6 -> 8

\* C25: during header parsing the cursor offset is a multiple of 4 after every name is
\* read and after every attribute element is parsed, whatever the length of the name
\* and the type and element count of the attribute; a name of byte length L advances
\* the cursor by 4 + L + ((4 - L mod 4) mod 4), and an attribute element by its name,
\* its two words and its padded payload.
C25_FieldsAligned ==
    state = "parsing"
      => /\ offset % 4 = 0
         /\ last.op = "readName"
              => last.offset = last.start + 4 + WordAt(last.start)
                                 + ((4 - (WordAt(last.start) % 4)) % 4)
         /\ last.op = "attribute"
              => \E type \in 1..6 :
                   /\ type = WordAt(last.start + 4 + Padded(WordAt(last.start)))
                   /\ last.offset
                        = last.start + 4 + Padded(WordAt(last.start)) + 8
                            + Padded(Width(type)
                                       * WordAt(last.start + 8 + Padded(WordAt(last.start))))

\* an attribute element with a name of 5 bytes and 5 SHORT elements has been parsed,
\* after other fields: 3 bytes of padding after the name, 2 after the payload
C25_Witness ==
    /\ state = "parsing"
    /\ last.op = "attribute"
    /\ WordAt(last.start) = 5
    /\ WordAt(last.start + 12) = 3
    /\ WordAt(last.start + 16) = 5
    /\ last.offset = last.start + 32
    /\ last.start > 8

----------------------------------------------------------------------------
\* readType has returned a value of the type
HasRead(type) == last.op = "readType" /\ last.arg.type = type /\ last.err = NoErr

\* the characters stored where readType started
CharsRead == Items(CHAR, last.start, last.arg.size)

\* C26: readType on CHAR data of n characters removes exactly one trailing NUL when
\* the last character is NUL and nothing otherwise: the result has n-1 characters in
\* the first case and n in the second, and it is a prefix of the input, so NULs before
\* the last position are kept.
C26_OneTrailingNul ==
    HasRead(CHAR)
      => /\ last.ret.kind = "text"
         /\ Len(last.ret.items)
              = IF last.arg.size > 0 /\ CharsRead[last.arg.size] = 0
                THEN last.arg.size - 1 ELSE last.arg.size
         /\ \A k \in 1..Len(last.ret.items) : last.ret.items[k] = CharsRead[k]

\* four characters ending in two NULs have been read: one NUL is removed, the other
\* and the one at the head are kept
C26_Witness ==
    /\ HasRead(CHAR)
    /\ last.arg.size = 4
    /\ CharsRead = <<0, 65, 0, 0>>
    /\ last.ret.items = <<0, 65, 0>>

\* C27: for the numeric types SHORT, INT, FLOAT and DOUBLE, readType with count 1
\* returns a single scalar and with any other count, 0 included, an ordered sequence
\* of exactly count values, read at consecutive offsets; in both cases the cursor
\* advances by count * num2bytes(type).
C27_ScalarOrSequence ==
    \A type \in {SHORT, INT, FLOAT, DOUBLE} :
      HasRead(type)
        => /\ last.ret.kind = IF last.arg.size = 1 THEN "scalar" ELSE "array"
           /\ Len(last.ret.items) = last.arg.size
           /\ \A k \in 1..last.arg.size :
                last.ret.items[k] = Decode(type, last.start + (k - 1) * Width(type))
           /\ last.offset = last.start + last.arg.size * Width(type)
           /\ last.reads = [k \in 1..last.arg.size |->
                              <<last.start + (k - 1) * Width(type), Width(type)>>]

\* a single SHORT has been read as a scalar, after other reads
C27_Witness ==
    /\ HasRead(SHORT)
    /\ last.arg.size = 1
    /\ last.ret.kind = "scalar"
    /\ last.start > 0
    /\ last.offset = last.start + 2

----------------------------------------------------------------------------
\* a file the parser accepts when whole, given with its end missing
CutShort(d) == d.cut > 0 /\ Readable([d EXCEPT !.cut = 0])

\* the bytes getDataVariable has to read for the variable pass the end of the image
PastTheEnd ==
    /\ TargetType \in BYTE..DOUBLE
    /\ Target.size > 0
    /\ Target.size % Width(TargetType) = 0
    /\ IF Target.record
       THEN \E i \in Records : RecordAt(i) + Target.size > Len(data)
       ELSE Target.offset + Target.size > Len(data)

\* C28: a read that would pass the end of the byte image fails with an error and
\* gives no value.  Every read that succeeds lies inside the image; a file whose
\* header is cut short yields no header but the DataView's RangeError; and
\* getDataVariable for a variable whose bytes pass the end of the image throws that
\* error, so no result holds a value decoded from beyond the image.
C28_NoReadPastTheEnd ==
    /\ \A r \in Range(last.reads) : r[1] >= 0 /\ r[1] + r[2] <= Len(data)
    /\ (last.op = "constructor" /\ CutShort(file) /\ Len(data) < HeaderLen(file))
         => (last.err = RangeErr /\ state = "failed" /\ header = NoHeader)
    /\ (Got /\ PastTheEnd) => last.err = RangeErr

\* getDataVariable has thrown at the second record of a variable, whose bytes the
\* image lacks, after the header and the first record were read
C28_Witness ==
    /\ Got /\ Target.record /\ PastTheEnd
    /\ CutShort(file)
    /\ RecordAt(0) + Target.size <= Len(data)
    /\ last.err = RangeErr
    /\ last.reads # <<>>

----------------------------------------------------------------------------
\* the count a list section declares to the parser
Declared(l) == IF l.tag = ZERO THEN 0 ELSE l.count

\* a file with a correct prefix and list tags in which a list declares more elements
\* than the whole image could hold, an element taking 4 bytes at least
OverDeclared(d) ==
    /\ d.given /\ d.magic = Magic /\ d.version \in 0..2
    /\ \A l \in {d.dimList, d.attList, d.varList} : l.tag # ZERO
    /\ d.dimList.tag = NC_DIMENSION /\ d.attList.tag = NC_ATTRIBUTE
    /\ d.varList.tag = NC_VARIABLE
    /\ \E l \in {d.dimList, d.attList, d.varList} : 4 * l.count > Len(Encode(d))

\* C29: for every finite byte image the constructor terminates, with a reader that has
\* a complete header or with an error.  Its reads go forward through the image, each
\* inside it, so that no loop can take more turns than the image has bytes; when it
\* succeeds each list has exactly the count of elements it declares (a list is looked at
\* when the lists before it hold what they declare, so that its count is read from the
\* place the file puts it); and a count larger than the bytes that remain ends in an
\* error.
C29_ConstructorTerminates ==
    last.op = "constructor"
      => /\ \A k \in 1..(Len(last.reads) - 1) :
              last.reads[k][1] + last.reads[k][2] <= last.reads[k + 1][1]
         /\ \A k \in 1..Len(last.reads) :
              last.reads[k][2] > 0 /\ last.reads[k][1] + last.reads[k][2] <= Len(data)
         /\ IF last.err = NoErr
            THEN /\ state = "ready"
                 /\ Len(header.dimensions) = Declared(file.dimList)
                 /\ Exact(file.dimList)
                      => Len(header.globalAttributes) = Declared(file.attList)
                 /\ (Exact(file.dimList) /\ Exact(file.attList))
                      => Len(header.variables) = Declared(file.varList)
                 /\ (Exact(file.dimList) /\ Exact(file.attList) /\ Exact(file.varList))
                      => \A v \in DOMAIN header.variables :
                           /\ Len(header.variables[v].dimensions)
                                = Len(file.varList.elems[v].dims)
                           /\ Len(header.variables[v].attributes)
                                = Len(file.varList.elems[v].atts)
            ELSE state = "failed" /\ header = NoHeader
         /\ OverDeclared(file) => last.err # NoErr

\* the constructor has ended in an error on a file whose list of variables declares
\* 100 elements more than it holds, after reading the variable it holds
C29_Witness ==
    /\ last.op = "constructor"
    /\ OverDeclared(file)
    /\ file.varList.count = Len(file.varList.elems) + 100
    /\ last.err = RangeErr
    /\ state = "failed"
    /\ Len(last.reads) > 4 + 1 + 6 + 7 + 8

----------------------------------------------------------------------------
\* every record of the variable lies inside the image
SlicesInside == \A i \in Records : RecordAt(i) + Target.size <= Len(data)

\* where the cursor is left by the seek after the last record
AfterLastRecord ==
    Target.offset + header.recordDimension.length * header.recordDimension.recordStep

=============================================================================
